---- MODULE Spec2Model ----
(***************************************************************************)
(* A model of renderer.h: the arena allocator, the style token compiler    *)
(* (ParseComponentOptions), the scroll container helpers, the render        *)
(* command interpreter (Clay_Raylib_Render) and the run loop (RenderSetup). *)
(***************************************************************************)
EXTENDS Integers, Sequences, FiniteSets, TLC

VARIABLES
    arena,          \* the Arena struct: buffer, bufferLength, prevOffset, currOffset
    mem,            \* the bytes of arena.buffer: mem[i + 1] is buffer[i]
    arenaPc,        \* "none" | "live" | "freed" | "aborted" | "crashed"
    allocs,         \* the [offset, size] ranges ArenaAlloc returned since the last reset
    lastCall,       \* the last arena call and what it saw on entry
    firstPtr,       \* the address the first ArenaAlloc after ArenaInit returned
    wasReset,       \* an ArenaReset happened since ArenaInit
    parsePc,        \* "idle" | "returned" | "aborted" | "crashed"
    parseIn,        \* the last ParseComponentOptions call: macro, options, defaultOptions
    parseOut,       \* the Clay_ElementDeclaration it returned
    parseDiag,      \* the message of the assertion that failed
    scrollPc,       \* "none" | "open": the scroll container exists in the layout
    scrollData,     \* its Clay_ScrollContainerData
    lastScroll,     \* the last scroll call: op, delta, and the offset it found
    renderPc,       \* "idle" | "running" | "returned" | "exited": Clay_Raylib_Render
    renderCommands, \* the Clay_RenderCommandArray of the call
    cmdIndex,       \* the j of its loop
    drawLog,        \* the drawing operations issued to the backend, in order
    visited,        \* the indexes the switch was entered for, in order
    loopPc,         \* where RenderSetup stands
    renderer,       \* the Renderer global
    clay,           \* the capacities of the layout engine
    loopHist,       \* the errors and reinitializations of the run so far
    measurePc,      \* "idle" | "returned" | "crashed": Raylib_MeasureText
    measureIn,      \* the text and the text config of the last call
    measureOut      \* the Clay_Dimensions it returned

arenaVars == <<arena, mem, arenaPc, allocs, lastCall, firstPtr, wasReset>>

styleVars == <<parsePc, parseIn, parseOut, parseDiag>>

scrollVars == <<scrollPc, scrollData, lastScroll>>

renderVars == <<renderPc, renderCommands, cmdIndex, drawLog, visited>>

loopVars == <<loopPc, renderer, clay, loopHist>>

measureVars == <<measurePc, measureIn, measureOut>>

vars == <<arena, mem, arenaPc, allocs, lastCall, firstPtr, wasReset,
          parsePc, parseIn, parseOut, parseDiag,
          scrollPc, scrollData, lastScroll,
          renderPc, renderCommands, cmdIndex, drawLog, visited,
          loopPc, renderer, clay, loopHist,
          measurePc, measureIn, measureOut>>

(***************************************************************************)
(* Bounds and platform constants                                           *)
(***************************************************************************)
\* sizeof(void *) of the build (64-bit).
SizeofVoidPtr == 8

\* #define DEFAULT_ALIGNMENT (2 * sizeof(void *))
DEFAULT_ALIGNMENT == 2 * SizeofVoidPtr

\* Width in bits of size_t in the model: the arithmetic wraps modulo 2^SizeBits
\* exactly as the 64-bit arithmetic of the build wraps modulo 2^64.
SizeBits == 8

SizeMod == 2 ^ SizeBits

SIZE_MAX == SizeMod - 1

\* Largest capacity given to ArenaInit.
MaxCap == 32

\* Number of ArenaAlloc calls followed between two resets.
MaxAllocs == 3

\* malloc returns addresses aligned for any object: multiples of the alignment.
MaxBaseBlocks == 1

Capacities == {0, MaxCap - SizeofVoidPtr, MaxCap}

Bases == {DEFAULT_ALIGNMENT * k : k \in 1..MaxBaseBlocks}

\* malloc does not initialise the block: what it holds is whatever the heap held.
MallocFills == {0, 170}

AllocSizes == {0, 1, DEFAULT_ALIGNMENT, SIZE_MAX - DEFAULT_ALIGNMENT + 1, SIZE_MAX}

\* Lengths of the strings F formats.
FormatLens == {3}

NoPtr == -1

NoCall == [op |-> "none", size |-> 0, entryPrev |-> 0, entryCurr |-> 0,
           offset |-> 0, ret |-> NoPtr, first |-> FALSE, outcome |-> "none"]

(***************************************************************************)
(* Arena                                                                   *)
(***************************************************************************)
\* alignForward rounding down to the alignment instead of up.
alignBackward(ptr) == ptr - (ptr % DEFAULT_ALIGNMENT)

\* p & (a - 1) is p % a for a power of two a and p >= 0.
alignForward(ptr) ==
    LET modulo == ptr % DEFAULT_ALIGNMENT
    IN  IF modulo # 0 THEN ptr + (DEFAULT_ALIGNMENT - modulo) ELSE ptr

\* memset(&buffer[offset], 0, size), as far as it falls inside the buffer.
Memset(m, offset, size) ==
    [i \in DOMAIN m |-> IF offset <= i - 1 /\ i - 1 < offset + size THEN 0 ELSE m[i]]

\* ArenaAlloc up to the memset: the assertion and the new offsets.
\* offset + size is computed in size_t, so it wraps.
ArenaAllocOffsets(a, size) ==
    LET currPtr == a.buffer + a.currOffset
        offset  == alignForward(currPtr) - a.buffer
        sum     == (offset + size) % SizeMod
    IN  [asserts |-> ~(sum <= a.bufferLength),
         offset  |-> offset,
         ptr     |-> a.buffer + offset,
         \* the memset runs past the end of the buffer
         overrun |-> offset + size > a.bufferLength,
         arena   |-> [a EXCEPT !.prevOffset = offset, !.currOffset = sum]]

\* ArenaReset that rewinds to the previous allocation only.
ArenaResetToPrev(a) == [a EXCEPT !.currOffset = a.prevOffset]

ArenaResetOp(a) == [a EXCEPT !.currOffset = 0]

ArenaInitOp(size, base) ==
    [buffer |-> base, bufferLength |-> size, prevOffset |-> 0, currOffset |-> 0]

\* vsnprintf(buffer, size, format, ...) of F: len characters and the zero.
Vsnprintf(m, offset, len) ==
    [i \in DOMAIN m |-> IF offset <= i - 1 /\ i - 1 < offset + len THEN 65
                        ELSE IF i - 1 = offset + len THEN 0 ELSE m[i]]

\* One ArenaAlloc call: the assertion aborts, or the call returns. When the
\* memset overruns the buffer the behaviour is undefined: the build either dies
\* in the memset or returns. len > 0 is F writing its string into the block.
AllocStep(size, op, len) ==
    LET r == ArenaAllocOffsets(arena, size)
        zeroed == Memset(mem, r.offset, size)
        call == [op |-> op, size |-> size, entryPrev |-> arena.prevOffset,
                 entryCurr |-> arena.currOffset, offset |-> r.offset,
                 ret |-> NoPtr, first |-> allocs = <<>>, outcome |-> "assert"]
    IN  IF r.asserts
        THEN /\ arenaPc' = "aborted"
             /\ lastCall' = call
             /\ UNCHANGED <<arena, mem, allocs, firstPtr, wasReset>>
             /\ UNCHANGED <<styleVars, scrollVars, renderVars, loopVars, measureVars>>
        ELSE /\ arena' = r.arena
             /\ \E outcome \in (IF r.overrun THEN {"returned", "crashed"} ELSE {"returned"}) :
                    IF outcome = "returned"
                    THEN /\ arenaPc' = "live"
                         /\ mem' = IF op = "F" THEN Vsnprintf(zeroed, r.offset, len) ELSE zeroed
                         /\ allocs' = Append(allocs, [offset |-> r.offset, size |-> size])
                         /\ lastCall' = [call EXCEPT !.ret = r.ptr, !.outcome = "returned"]
                         /\ firstPtr' = IF firstPtr = NoPtr /\ ~wasReset /\ allocs = <<>>
                                        THEN r.ptr ELSE firstPtr
                    ELSE /\ arenaPc' = "crashed"
                         /\ mem' = zeroed
                         /\ lastCall' = [call EXCEPT !.outcome = "crashed"]
                         /\ UNCHANGED <<allocs, firstPtr>>
             /\ UNCHANGED wasReset
             /\ UNCHANGED <<styleVars, scrollVars, renderVars, loopVars, measureVars>>

ArenaInit ==
    /\ arenaPc = "none"
    /\ \E size \in Capacities, base \in Bases, fill \in MallocFills :
          /\ arena' = ArenaInitOp(size, base)
          /\ mem' = [i \in 1..size |-> fill]
          /\ lastCall' = [NoCall EXCEPT !.op = "init", !.size = size]
    /\ arenaPc' = "live"
    /\ allocs' = <<>>
    /\ firstPtr' = NoPtr
    /\ wasReset' = FALSE
    /\ UNCHANGED <<styleVars, scrollVars, renderVars, loopVars, measureVars>>

ArenaAlloc ==
    /\ arenaPc = "live"
    /\ Len(allocs) < MaxAllocs
    /\ \E size \in AllocSizes : AllocStep(size, "alloc", 0)

\* F: formats into a block of the arena, the terminating zero included.
F ==
    /\ arenaPc = "live"
    /\ Len(allocs) < MaxAllocs
    /\ \E len \in FormatLens : AllocStep(len + 1, "F", len)

ArenaReset ==
    /\ arenaPc = "live"
    /\ arena' = ArenaResetOp(arena)
    /\ allocs' = <<>>
    /\ wasReset' = TRUE
    /\ lastCall' = [NoCall EXCEPT !.op = "reset", !.entryPrev = arena.prevOffset,
                                  !.entryCurr = arena.currOffset]
    /\ UNCHANGED <<mem, arenaPc, firstPtr>>
    /\ UNCHANGED <<styleVars, scrollVars, renderVars, loopVars, measureVars>>

ArenaFree ==
    /\ arenaPc = "live"
    /\ arenaPc' = "freed"
    /\ lastCall' = [NoCall EXCEPT !.op = "free"]
    /\ UNCHANGED <<arena, mem, allocs, firstPtr, wasReset>>
    /\ UNCHANGED <<styleVars, scrollVars, renderVars, loopVars, measureVars>>

(***************************************************************************)
(* C strings                                                               *)
(***************************************************************************)
\* The zero byte.
NUL == "\\0"

Digits == <<"0", "1", "2", "3", "4", "5", "6", "7", "8", "9">>

IsDigit(c) == \E d \in 1..10 : Digits[d] = c

DigitVal(c) == (CHOOSE d \in 1..10 : Digits[d] = c) - 1

\* A char[n] array initialised from the string s: s, then zero bytes.
CharArray(s, n) == [i \in 1..n |-> IF i <= Len(s) THEN s[i] ELSE NUL]

\* strnlen(arr, n): the bytes before the first zero byte, at most n.
Strnlen(arr, n) ==
    IF \E i \in 1..n : arr[i] = NUL
    THEN (CHOOSE i \in 1..n : arr[i] = NUL /\ \A j \in 1..(i - 1) : arr[j] # NUL) - 1
    ELSE n

\* The array holds a zero byte: it is a terminated string.
Terminated(arr) == \E i \in DOMAIN arr : arr[i] = NUL

\* strrchr(s, c) - s on the string s: the offset of the last c, or -1 for NULL.
Strrchr(s, c) ==
    IF \E i \in 1..Len(s) : s[i] = c
    THEN (CHOOSE i \in 1..Len(s) : s[i] = c /\ \A j \in (i + 1)..Len(s) : s[j] # c) - 1
    ELSE -1

RECURSIVE DigitsValue(_)
DigitsValue(s) == IF s = <<>> THEN 0 ELSE 10 * DigitsValue(SubSeq(s, 1, Len(s) - 1)) + DigitVal(s[Len(s)])

\* The longest prefix of s made of decimal digits.
DigitPrefixLen(s) ==
    IF \A i \in 1..Len(s) : IsDigit(s[i]) THEN Len(s)
    ELSE (CHOOSE i \in 1..Len(s) : ~IsDigit(s[i]) /\ \A j \in 1..(i - 1) : IsDigit(s[j])) - 1

\* atof on a string of digits and letters: the value of the leading decimal
\* digits, 0 when there are none.
Atof(s) == DigitsValue(SubSeq(s, 1, DigitPrefixLen(s)))

\* A char * argument: NULL, or a pointer to a terminated string.
NULL == [null |-> TRUE, chars |-> <<>>]

CStr(s) == [null |-> FALSE, chars |-> s]

(***************************************************************************)
(* Clay_ElementDeclaration and ComponentOptions                            *)
(***************************************************************************)
\* The Clay_ElementId Clay__HashString(toClayString(str), 0, 0) gives: the
\* layout engine's handle of the name.
Clay__HashString(str) == [stringId |-> str, offset |-> 0]

Color(r, g, b, a) == [r |-> r, g |-> g, b |-> b, a |-> a]

Transparent == Color(0, 0, 0, 0)

\* #define CLAY_SIZING_FIT(...), GROW, FIXED, PERCENT of clay.h.
CLAY_SIZING_FIT(n) == [type |-> "FIT", min |-> n, max |-> 0, percent |-> 0]

CLAY_SIZING_GROW(n) == [type |-> "GROW", min |-> n, max |-> 0, percent |-> 0]

CLAY_SIZING_FIXED(n) == [type |-> "FIXED", min |-> n, max |-> n, percent |-> 0]

CLAY_SIZING_PERCENT(n) == [type |-> "PERCENT", min |-> 0, max |-> 0, percent |-> n]

CornerRadius(tl, tr, bl, br) ==
    [topLeft |-> tl, topRight |-> tr, bottomLeft |-> bl, bottomRight |-> br]

BorderWidth(l, r, t, b, between) ==
    [left |-> l, right |-> r, top |-> t, bottom |-> b, betweenChildren |-> between]

Padding(l, r, t, b) == [left |-> l, right |-> r, top |-> t, bottom |-> b]

\* A zero-initialised Clay_ElementDeclaration: (Clay_ElementDeclaration){0}.
ZeroDeclaration ==
    [id              |-> Clay__HashString(<<>>),
     layout          |-> [sizing |-> [width |-> CLAY_SIZING_FIT(0), height |-> CLAY_SIZING_FIT(0)],
                          padding |-> Padding(0, 0, 0, 0),
                          childGap |-> 0,
                          childAlignment |-> [x |-> "LEFT", y |-> "TOP"],
                          layoutDirection |-> "LEFT_TO_RIGHT"],
     backgroundColor |-> Transparent,
     cornerRadius    |-> CornerRadius(0, 0, 0, 0),
     scroll          |-> [horizontal |-> FALSE, vertical |-> FALSE],
     border          |-> [color |-> Transparent, width |-> BorderWidth(0, 0, 0, 0, 0)],
     userData        |-> 0]

boxDefaultOptions ==
    [ZeroDeclaration EXCEPT !.layout.layoutDirection = "TOP_TO_BOTTOM"]

columnDefaultOptions ==
    [ZeroDeclaration EXCEPT !.layout.layoutDirection = "TOP_TO_BOTTOM"]

rowDefaultOptions ==
    [ZeroDeclaration EXCEPT !.layout.layoutDirection = "LEFT_TO_RIGHT"]

separatorDefaultOptions ==
    [ZeroDeclaration EXCEPT !.layout.sizing = [width |-> CLAY_SIZING_GROW(0),
                                               height |-> CLAY_SIZING_GROW(0)]]

\* Defaults of a component the caller defines on ParseComponentOptions: every
\* field set, the four edges and corners each to another value.
callerDefaultOptions ==
    [id              |-> Clay__HashString(<<"c", "a", "r", "d">>),
     layout          |-> [sizing |-> [width |-> CLAY_SIZING_FIXED(300), height |-> CLAY_SIZING_PERCENT(25)],
                          padding |-> Padding(11, 12, 13, 14),
                          childGap |-> 9,
                          childAlignment |-> [x |-> "RIGHT", y |-> "BOTTOM"],
                          layoutDirection |-> "TOP_TO_BOTTOM"],
     backgroundColor |-> Color(19, 16, 16, 255),
     cornerRadius    |-> CornerRadius(1, 3, 5, 7),
     scroll          |-> [horizontal |-> TRUE, vertical |-> FALSE],
     border          |-> [color |-> Color(84, 58, 20, 255), width |-> BorderWidth(21, 22, 23, 24, 25)],
     userData        |-> 1]

\* COMPONENT_OPTIONS(): every field zero, null or empty.
EmptyOptions ==
    [id |-> NULL, bg |-> Transparent, gap |-> 0, scroll |-> CharArray(<<>>, 1),
     p |-> 0, pb |-> 0, pt |-> 0, pl |-> 0, pr |-> 0, py |-> 0, px |-> 0,
     align |-> CharArray(<<>>, 2),
     borderRadius |-> CharArray(<<>>, 6),
     border |-> [color |-> Transparent, width |-> CharArray(<<>>, 6)],
     w |-> NULL, h |-> NULL]

\* What a block of ParseComponentOptions leaves: the declaration so far, whether
\* an assertion failed (and its message), and whether the block ran into
\* undefined behaviour (a read or a write outside an array).
Ok(result) == [status |-> "ok", diag |-> "", ub |-> FALSE, result |-> result]

Ub(result) == [status |-> "ok", diag |-> "", ub |-> TRUE, result |-> result]

AssertFailed(msg, result) == [status |-> "abort", diag |-> msg, ub |-> FALSE, result |-> result]


(***************************************************************************)
(* ParseComponentOptions, block by block                                   *)
(***************************************************************************)
\* The Misc block with the gap copied whether it is set or not.
ParseMiscAlwaysGap(options, result) ==
    LET r1 == IF ~options.id.null
              THEN [result EXCEPT !.id = Clay__HashString(options.id.chars)] ELSE result
        r2 == IF options.bg.r # 0 \/ options.bg.g # 0 \/ options.bg.b # 0 \/ options.bg.a # 0
              THEN [r1 EXCEPT !.backgroundColor = options.bg] ELSE r1
    IN  [r2 EXCEPT !.layout.childGap = options.gap]

ParseMisc(options, result) ==
    LET r1 == IF ~options.id.null
              THEN [result EXCEPT !.id = Clay__HashString(options.id.chars)] ELSE result
        r2 == IF options.bg.r # 0 \/ options.bg.g # 0 \/ options.bg.b # 0 \/ options.bg.a # 0
              THEN [r1 EXCEPT !.backgroundColor = options.bg] ELSE r1
    IN  IF options.gap # 0 THEN [r2 EXCEPT !.layout.childGap = options.gap] ELSE r2

\* The padding block with the single edges applied before the axes.
ParsePaddingEdgesFirst(options, result) ==
    LET d  == result.layout.padding
        e  == Padding(IF options.pl # 0 THEN options.pl ELSE d.left,
                      IF options.pr # 0 THEN options.pr ELSE d.right,
                      IF options.pt # 0 THEN options.pt ELSE d.top,
                      IF options.pb # 0 THEN options.pb ELSE d.bottom)
        p0 == IF options.p # 0 THEN Padding(options.p, options.p, options.p, options.p) ELSE e
        p1 == IF options.px # 0 THEN [p0 EXCEPT !.left = options.px, !.right = options.px] ELSE p0
        p2 == IF options.py # 0 THEN [p1 EXCEPT !.top = options.py, !.bottom = options.py] ELSE p1
    IN  [result EXCEPT !.layout.padding = p2]

ParsePadding(options, result) ==
    LET d  == result.layout.padding
        p0 == IF options.p # 0 THEN Padding(options.p, options.p, options.p, options.p) ELSE d
        p1 == IF options.px # 0 THEN [p0 EXCEPT !.left = options.px, !.right = options.px] ELSE p0
        p2 == IF options.py # 0 THEN [p1 EXCEPT !.top = options.py, !.bottom = options.py] ELSE p1
        p3 == IF options.pt # 0 THEN [p2 EXCEPT !.top = options.pt] ELSE p2
        p4 == IF options.pb # 0 THEN [p3 EXCEPT !.bottom = options.pb] ELSE p3
        p5 == IF options.pl # 0 THEN [p4 EXCEPT !.left = options.pl] ELSE p4
        p6 == IF options.pr # 0 THEN [p5 EXCEPT !.right = options.pr] ELSE p5
    IN  [result EXCEPT !.layout.padding = p6]

ParseAlign(options, result) ==
    LET firstChar  == options.align[1]
        secondChar == options.align[2]
        y == CASE firstChar = "t" -> "TOP"
               [] firstChar = "c" -> "CENTER"
               [] firstChar = "b" -> "BOTTOM"
               [] OTHER -> result.layout.childAlignment.y
        x == CASE secondChar = "l" -> "LEFT"
               [] secondChar = "c" -> "CENTER"
               [] secondChar = "r" -> "RIGHT"
               [] OTHER -> result.layout.childAlignment.x
    IN  [result EXCEPT !.layout.childAlignment = [x |-> x, y |-> y]]

ParseScroll(options, result) ==
    LET firstChar == options.scroll[1]
    IN  CASE firstChar = "v" -> [result EXCEPT !.scroll = [horizontal |-> FALSE, vertical |-> TRUE]]
          [] firstChar = "h" -> [result EXCEPT !.scroll = [horizontal |-> TRUE, vertical |-> FALSE]]
          [] firstChar = "b" -> [result EXCEPT !.scroll = [horizontal |-> TRUE, vertical |-> TRUE]]
          [] OTHER -> result

\* The size names of the border radius block.
RadiusSize(sizeStr) ==
    CASE sizeStr = <<"x", "s">> -> 2
      [] sizeStr = <<"s", "m">> -> 4
      [] sizeStr = <<"m", "d">> -> 6
      [] sizeStr = <<"l", "g">> -> 8
      [] sizeStr = <<"x", "l">> -> 12
      [] sizeStr = <<"2", "x", "l">> -> 16
      [] sizeStr = <<"3", "x", "l">> -> 24
      [] OTHER -> 0

\* The compound literal each direction assigns: the corners it names, and zero
\* in the others.
RadiusOf(directionStr, size, old) ==
    CASE directionStr = <<"t">> -> CornerRadius(size, size, 0, 0)
      [] directionStr = <<"b">> -> CornerRadius(0, 0, size, size)
      [] directionStr = <<"l">> -> CornerRadius(size, 0, size, 0)
      [] directionStr = <<"r">> -> CornerRadius(0, size, 0, size)
      [] directionStr = <<"t", "l">> -> CornerRadius(size, 0, 0, 0)
      [] directionStr = <<"t", "r">> -> CornerRadius(0, size, 0, 0)
      [] directionStr = <<"b", "l">> -> CornerRadius(0, 0, size, 0)
      [] directionStr = <<"b", "r">> -> CornerRadius(0, 0, 0, size)
      [] directionStr = <<"a">> -> CornerRadius(size, size, size, size)
      [] OTHER -> old

\* Sizes of the local buffers char directionStr[3], sizeStr[4] and widthStr[4].
DirectionStrSize == 3

SizeStrSize == 4

WidthStrSize == 4

\* Size of the request's char borderRadius[6] and border.width[6].
TokenFieldSize == 6

ParseBorderRadius(options, result) ==
    LET arr == options.borderRadius
    IN  IF arr[1] = NUL THEN Ok(result)
        ELSE
        LET stringLen    == Strnlen(arr, TokenFieldSize)
            str          == SubSeq(arr, 1, stringLen)
            delimiter    == Strrchr(str, "-")
            directionLen == delimiter
            sizeLen      == stringLen - (directionLen + 1)
            directionStr == SubSeq(str, 1, directionLen)
            sizeStr      == SubSeq(str, delimiter + 2, stringLen)
            size         == RadiusSize(sizeStr)
            new          == [result EXCEPT !.cornerRadius = RadiusOf(directionStr, size, @)]
        IN  IF delimiter = -1
            THEN AssertFailed("Border radius format is {direction}-{size} ex: t-sm", result)
            ELSE IF \/ ~Terminated(arr)                     \* strrchr reads past the field
                    \/ directionLen + 1 > DirectionStrSize  \* directionStr[directionLen] = 0
                    \/ sizeLen + 1 > SizeStrSize            \* sizeStr[sizeLen] = 0
                 THEN Ub(new)
                 ELSE Ok(new)

\* The border block once the color is known to be non-transparent.
ParseBorderWidth(options, result) ==
    LET arr == options.border.width
        stringLen    == Strnlen(arr, TokenFieldSize)
        str          == SubSeq(arr, 1, stringLen)
        delimiter    == Strrchr(str, "-")
        widthLen     == delimiter
        sizeLen      == stringLen - (widthLen + 1)
        directionStr == arr[1]
        widthStr     == SubSeq(str, delimiter + 2, stringLen)
        w            == Atof(widthStr)
        width ==
            CASE directionStr = "t" -> BorderWidth(0, 0, w, 0, 0)
              [] directionStr = "b" -> BorderWidth(0, 0, 0, w, 0)
              [] directionStr = "l" -> BorderWidth(w, 0, 0, 0, 0)
              [] directionStr = "r" -> BorderWidth(0, w, 0, 0, 0)
              [] directionStr = "a" -> BorderWidth(w, w, w, w, 0)
              [] OTHER -> result.border.width
        new == [result EXCEPT !.border = [color |-> options.border.color, width |-> width]]
    IN  IF delimiter = -1
        THEN AssertFailed("Border format is {width}-{size} ex: t-50", result)
        ELSE IF \/ ~Terminated(arr)               \* strrchr reads past the field
                \/ sizeLen + 1 > WidthStrSize     \* widthStr[sizeLen] = 0
             THEN Ub(new)
             ELSE Ok(new)

\* The border block without the test of the color's alpha.
ParseBorderAnyColor(options, result) == ParseBorderWidth(options, result)

ParseBorder(options, result) ==
    IF options.border.color.a # 0 THEN ParseBorderWidth(options, result) ELSE Ok(result)

\* Size of the local buffer char sizeString[10].
SizeStringSize == 10

\* One axis of the sizing block with fixed and grow exchanged.
ParseSizingAxisSwapped(token, old) ==
    IF token.null THEN Ok(old)
    ELSE
    LET stringLen  == Len(token.chars)
        delimiter  == Strrchr(token.chars, "-")
        typeLength == delimiter
        sizeLen    == stringLen - (typeLength + 1)
        n          == Atof(SubSeq(token.chars, delimiter + 2, stringLen))
    IN  IF delimiter = -1
        THEN AssertFailed("Height or width format is {typing}-{size} ex: fit-0", old)
        ELSE IF ~(sizeLen < SizeStringSize)
        THEN AssertFailed("Size string too long for buffer", old)
        ELSE IF ~(typeLength >= 3)
        THEN AssertFailed("Unknown sizing type", old)
        ELSE Ok(CASE typeLength = 3 -> CLAY_SIZING_FIT(n)
                  [] typeLength = 4 -> CLAY_SIZING_FIXED(n)
                  [] typeLength = 5 -> CLAY_SIZING_GROW(n)
                  [] typeLength = 7 -> CLAY_SIZING_PERCENT(n)
                  [] OTHER -> old)

\* One axis of the sizing block: the token, and the axis's sizing so far.
ParseSizingAxis(token, old) ==
    IF token.null THEN Ok(old)
    ELSE
    LET stringLen  == Len(token.chars)
        delimiter  == Strrchr(token.chars, "-")
        typeLength == delimiter
        sizeLen    == stringLen - (typeLength + 1)
        n          == Atof(SubSeq(token.chars, delimiter + 2, stringLen))
    IN  IF delimiter = -1
        THEN AssertFailed("Height or width format is {typing}-{size} ex: fit-0", old)
        ELSE IF ~(sizeLen < SizeStringSize)
        THEN AssertFailed("Size string too long for buffer", old)
        ELSE IF ~(typeLength >= 3)
        THEN AssertFailed("Unknown sizing type", old)
        ELSE Ok(CASE typeLength = 3 -> CLAY_SIZING_FIT(n)
                  [] typeLength = 4 -> CLAY_SIZING_GROW(n)
                  [] typeLength = 5 -> CLAY_SIZING_FIXED(n)
                  [] typeLength = 7 -> CLAY_SIZING_PERCENT(n)
                  [] OTHER -> old)

\* The sizing block: the height, then the width.
ParseSizing(options, result) ==
    LET h == ParseSizingAxis(options.h, result.layout.sizing.height)
        rh == [result EXCEPT !.layout.sizing.height = h.result]
        w == ParseSizingAxis(options.w, result.layout.sizing.width)
    IN  IF h.status # "ok" THEN AssertFailed(h.diag, result)
        ELSE IF w.status # "ok" THEN AssertFailed(w.diag, rh)
        ELSE Ok([rh EXCEPT !.layout.sizing.width = w.result])

\* ParseComponentOptions: the blocks in the order of the source. An assertion
\* that fails ends the call; undefined behaviour met on the way is remembered.
ParseComponentOptions(options, defaultOptions) ==
    LET r4 == ParseScroll(options, ParseAlign(options,
                 ParsePadding(options, ParseMisc(options, defaultOptions))))
        r5 == ParseBorderRadius(options, r4)
        r6 == ParseBorder(options, r5.result)
        r7 == ParseSizing(options, r6.result)
    IN  IF r5.status # "ok" THEN r5
        ELSE IF r6.status # "ok" THEN [r6 EXCEPT !.ub = r5.ub]
        ELSE [r7 EXCEPT !.ub = r5.ub \/ r6.ub]


(***************************************************************************)
(* The requests the component macros are given                             *)
(***************************************************************************)
Tok(left, right) == left \o <<"-">> \o right

\* Each padding field is unset or set to a value of its own.
PaddingRequests ==
    {[EmptyOptions EXCEPT !.p = a, !.px = b, !.py = c, !.pt = d, !.pb = e, !.pl = f, !.pr = g] :
        a \in {0, 1}, b \in {0, 2}, c \in {0, 3}, d \in {0, 4}, e \in {0, 5}, f \in {0, 6}, g \in {0, 7}}

Directions == {<<"t">>, <<"b">>, <<"l">>, <<"r">>, <<"t", "l">>, <<"t", "r">>,
               <<"b", "l">>, <<"b", "r">>, <<"a">>}

SizeNames == {<<"x", "s">>, <<"s", "m">>, <<"m", "d">>, <<"l", "g">>, <<"x", "l">>,
              <<"2", "x", "l">>, <<"3", "x", "l">>}

\* Directions and sizes outside the grammar.
BadDirections == {<<"x">>, <<>>, <<"l", "t">>}

BadSizeNames == {<<"z", "z">>, <<>>, <<"4", "x", "l">>}

\* The tokens char borderRadius[6] can hold; one of six characters fills the
\* field and leaves no room for the terminating zero.
RadiusTokens ==
    {t \in {Tok(d, z) : d \in Directions \cup BadDirections, z \in SizeNames \cup BadSizeNames} :
        Len(t) <= TokenFieldSize}
    \cup {<<"s", "m">>, <<"t", "l", "l", "g">>}
    \* a direction of three characters, and a size of four
    \cup {<<"t", "o", "p", "-", "s">>, <<"-", "h", "u", "g", "e">>}

RadiusRequests ==
    {[EmptyOptions EXCEPT !.borderRadius = CharArray(t, TokenFieldSize)] : t \in RadiusTokens}

Sides == {<<"t">>, <<"b">>, <<"l">>, <<"r">>, <<"a">>}

BadSides == {<<"x">>, <<>>}

WidthLiterals == {<<"0">>, <<"5">>, <<"5", "0">>, <<"1", "2", "0">>}

BorderTokens ==
    {Tok(d, n) : d \in Sides \cup BadSides, n \in WidthLiterals} \cup {<<>>, <<"5", "0">>}
    \* a width of four digits
    \cup {<<"-", "1", "0", "0", "0">>, <<"t", "-", "1", "0", "0", "0">>}

BorderColors == {Transparent, Color(84, 58, 20, 0), Color(239, 68, 68, 255)}

BorderRequests ==
    {[EmptyOptions EXCEPT !.border = [color |-> c, width |-> CharArray(t, TokenFieldSize)]] :
        c \in BorderColors, t \in BorderTokens}

\* Mode parts: the four words, other words of their lengths, and other lengths.
Modes == {<<"f", "i", "t">>, <<"g", "r", "o", "w">>, <<"f", "i", "x", "e", "d">>,
          <<"p", "e", "r", "c", "e", "n", "t">>, <<"m", "a", "x">>, <<"f", "i", "l", "l">>}

BadModes == {<<>>, <<"f", "i">>, <<"s", "t", "r", "e", "t", "c">>,
             <<"a", "b", "s", "o", "l", "u", "t", "e">>}

SizeLiterals == {<<"0">>, <<"5", "0">>, <<"1", "2", "0">>}

SizingTokens ==
    {NULL} \cup {CStr(Tok(m, n)) : m \in Modes \cup BadModes, n \in SizeLiterals}
           \cup {CStr(<<"f", "i", "t", "0">>),
                 CStr(Tok(<<"f", "i", "t">>, <<"1", "2", "3", "4", "5", "6", "7", "8", "9", "0">>))}

SizingRequests == {[EmptyOptions EXCEPT !.w = w, !.h = h] : w \in SizingTokens, h \in SizingTokens}

MiscRequests ==
    {[EmptyOptions EXCEPT !.id = i, !.bg = c, !.gap = g, !.align = a, !.scroll = sc] :
        i \in {NULL, CStr(<<"m", "a", "i", "n">>)},
        c \in BorderColors,
        g \in {0, 8},
        a \in {CharArray(<<>>, 2), <<"t", "l">>, <<"c", "c">>, <<"b", "r">>, <<NUL, "r">>, <<"b", NUL>>},
        sc \in {<<NUL>>, <<"v">>, <<"h">>, <<"b">>}}

\* Requests that set fields of several blocks at once.
MixedRequests ==
    {[EmptyOptions EXCEPT !.p = 1, !.pt = 4, !.gap = 8,
                          !.borderRadius = CharArray(r, TokenFieldSize),
                          !.border = [color |-> c, width |-> CharArray(b, TokenFieldSize)],
                          !.w = w] :
        r \in {<<>>, <<"a", "-", "s", "m">>, <<"t", "l", "-", "l", "g">>, <<"x", "-", "s", "m">>},
        c \in BorderColors,
        b \in {<<"a", "-", "5", "0">>, <<"t", "-", "5">>},
        w \in {NULL, CStr(Tok(<<"f", "i", "x", "e", "d">>, <<"1", "2", "0">>)),
               CStr(Tok(<<"s", "t", "r", "e", "t", "c">>, <<"5", "0">>))}}

Requests ==
    PaddingRequests \cup RadiusRequests \cup BorderRequests \cup SizingRequests
        \cup MiscRequests \cup MixedRequests

(***************************************************************************)
(* The component macros                                                    *)
(***************************************************************************)
\* One call CLAY(ParseComponentOptions(COMPONENT_OPTIONS(...), defaultOptions)):
\* it returns the declaration, or an assertion ends the process; after
\* undefined behaviour the build either goes on or dies.
ParseStep(macro, defaultOptions) ==
    /\ parsePc = "idle"
    /\ \E options \in Requests :
          LET r == ParseComponentOptions(options, defaultOptions)
          IN  /\ parseIn' = [macro |-> macro, options |-> options, defaultOptions |-> defaultOptions]
              /\ IF r.status = "abort"
                 THEN /\ parsePc' = "aborted"
                      /\ parseDiag' = r.diag
                      /\ parseOut' = ZeroDeclaration
                 ELSE \E outcome \in (IF r.ub THEN {"returned", "crashed"} ELSE {"returned"}) :
                        /\ parsePc' = outcome
                        /\ parseDiag' = ""
                        /\ parseOut' = IF outcome = "returned" THEN r.result ELSE ZeroDeclaration
    /\ UNCHANGED <<arenaVars, scrollVars, renderVars, loopVars, measureVars>>

Box == ParseStep("Box", boxDefaultOptions)

Column == ParseStep("Column", columnDefaultOptions)

Row == ParseStep("Row", rowDefaultOptions)

Separator == ParseStep("Separator", separatorDefaultOptions)

\* #define Margin(...) passes separatorDefaultOptions.
Margin == ParseStep("Margin", separatorDefaultOptions)

\* A component the application defines with defaults of its own.
Component == ParseStep("Component", callerDefaultOptions)

\* The element the macro opened is closed: the next macro can run.
CloseElement ==
    /\ parsePc = "returned"
    /\ parsePc' = "idle"
    /\ parseIn' = [macro |-> "none", options |-> EmptyOptions, defaultOptions |-> ZeroDeclaration]
    /\ parseOut' = ZeroDeclaration
    /\ parseDiag' = ""
    /\ UNCHANGED <<arenaVars, scrollVars, renderVars, loopVars, measureVars>>

(***************************************************************************)
(* Scroll containers                                                       *)
(***************************************************************************)
\* Largest scroll delta, content extent and the viewport extent of the model.
MaxDelta == 1000

MaxContent == 500

ViewportExtent == 200

ScrollDeltas == {-MaxDelta, -120, -50, 50, 120, MaxDelta}

ContentExtents == {100, MaxContent}

Fmaxf(a, b) == IF a >= b THEN a ELSE b

Fminf(a, b) == IF a <= b THEN a ELSE b

\* The new y offset of ScrollContainerByY with the lower clamp left out.
ScrollYUnclamped(data, deltaY) == Fminf(0, data.scrollPosition.y + deltaY)

\* ScrollContainerByY: newValue.
ScrollYValue(data, deltaY) ==
    LET newScrollY == data.scrollPosition.y + deltaY
        minScrollY == -Fmaxf(0, data.contentDimensions.height - data.scrollContainerDimensions.height)
    IN  Fminf(0, Fmaxf(newScrollY, minScrollY))

\* ScrollContainerByX: the value stored in scrollPosition->x.
ScrollXValue(data, deltaX) ==
    LET newScrollX == data.scrollPosition.x + deltaX
        minScrollX == -Fmaxf(0, data.contentDimensions.width - data.scrollContainerDimensions.width)
    IN  Fminf(0, Fmaxf(newScrollX, minScrollX))

\* ScrollContainerBottom: minScrollY.
ScrollBottomValue(data) ==
    -Fmaxf(0, data.contentDimensions.height - data.scrollContainerDimensions.height)

NoScroll == [op |-> "none", delta |-> 0, before |-> 0]

NoScrollData ==
    [scrollPosition |-> [x |-> 0, y |-> 0],
     contentDimensions |-> [width |-> 0, height |-> 0],
     scrollContainerDimensions |-> [width |-> 0, height |-> 0]]

\* The layout engine lays out the scroll container the calls name: its content
\* and viewport extents, and an offset inside the scrollable range.
LayoutScrollContainer ==
    /\ scrollPc = "none"
    /\ \E cw \in ContentExtents, ch \in ContentExtents :
       \E x \in {0, -Fmaxf(0, cw - ViewportExtent)}, y \in {0, -Fmaxf(0, ch - ViewportExtent)} :
          scrollData' = [scrollPosition |-> [x |-> x, y |-> y],
                         contentDimensions |-> [width |-> cw, height |-> ch],
                         scrollContainerDimensions |-> [width |-> ViewportExtent,
                                                        height |-> ViewportExtent]]
    /\ scrollPc' = "open"
    /\ lastScroll' = NoScroll
    /\ UNCHANGED <<arenaVars, styleVars, renderVars, loopVars, measureVars>>

ScrollContainerByY ==
    /\ scrollPc = "open"
    /\ \E deltaY \in ScrollDeltas :
          /\ scrollData' = [scrollData EXCEPT !.scrollPosition.y = ScrollYValue(scrollData, deltaY)]
          /\ lastScroll' = [op |-> "byY", delta |-> deltaY, before |-> scrollData.scrollPosition.y]
    /\ UNCHANGED <<scrollPc, arenaVars, styleVars, renderVars, loopVars, measureVars>>

ScrollContainerTop ==
    /\ scrollPc = "open"
    /\ scrollData' = [scrollData EXCEPT !.scrollPosition.y = 0]
    /\ lastScroll' = [op |-> "top", delta |-> 0, before |-> scrollData.scrollPosition.y]
    /\ UNCHANGED <<scrollPc, arenaVars, styleVars, renderVars, loopVars, measureVars>>

ScrollContainerBottom ==
    /\ scrollPc = "open"
    /\ scrollData' = [scrollData EXCEPT !.scrollPosition.y = ScrollBottomValue(scrollData)]
    /\ lastScroll' = [op |-> "bottom", delta |-> 0, before |-> scrollData.scrollPosition.y]
    /\ UNCHANGED <<scrollPc, arenaVars, styleVars, renderVars, loopVars, measureVars>>

ScrollContainerByX ==
    /\ scrollPc = "open"
    /\ \E deltaX \in ScrollDeltas :
          /\ scrollData' = [scrollData EXCEPT !.scrollPosition.x = ScrollXValue(scrollData, deltaX)]
          /\ lastScroll' = [op |-> "byX", delta |-> deltaX, before |-> scrollData.scrollPosition.x]
    /\ UNCHANGED <<scrollPc, arenaVars, styleVars, renderVars, loopVars, measureVars>>

(***************************************************************************)
(* Floats of the render commands                                           *)
(***************************************************************************)
\* A float is kept as a whole number of 1/FloatUnits: Fl(n) is n.0 and
\* Fl(n) + 1 is the smallest fraction above it.
FloatUnits == 2

Fl(n) == n * FloatUnits

Abs(v) == IF v < 0 THEN -v ELSE v

Sign(v) == IF v < 0 THEN -1 ELSE 1

\* (int)v: the conversion of a float to int drops the fraction.
ToInt(v) == Sign(v) * (Abs(v) \div FloatUnits)

\* (int)roundf(v): to the nearest whole number, halves away from zero.
RoundInt(v) == Sign(v) * ((2 * Abs(v) + FloatUnits) \div (2 * FloatUnits))

\* roundf(v), still a float.
Roundf(v) == Fl(RoundInt(v))

\* (uint8_t)roundf(v) of a colour channel.
ToUint8(v) == RoundInt(v) % 256

RECURSIVE Gcd(_, _)
Gcd(a, b) == IF b = 0 THEN a ELSE Gcd(b, a % b)

\* The quotient n / d of two floats (d >= 0), in lowest terms; a division of
\* a positive float by 0 is +infinity, den = 0.
Ratio(n, d) ==
    LET g == Gcd(Abs(n), Abs(d))
    IN  IF g = 0 THEN [num |-> 0, den |-> 0] ELSE [num |-> n \div g, den |-> d \div g]

\* A float as a quotient.
RatOf(v) == Ratio(v, FloatUnits)

RatLess(x, y) == x.num * y.den < y.num * x.den

RatMul(x, y) == Ratio(x.num * y.num, x.den * y.den)

\* #define CLAY__MIN(x, y) (((x) < (y)) ? (x) : (y)) and CLAY__MAX of clay.h.
CLAY__MIN(x, y) == IF RatLess(x, y) THEN x ELSE y

CLAY__MAX(x, y) == IF RatLess(y, x) THEN x ELSE y

(***************************************************************************)
(* Clay_RenderCommand                                                      *)
(***************************************************************************)
BoundingBox(x, y, width, height) == [x |-> x, y |-> y, width |-> width, height |-> height]

\* A Clay_Color: four float channels.
ClayColor(r, g, b, a) == [r |-> Fl(r), g |-> Fl(g), b |-> Fl(b), a |-> Fl(a)]

\* #define CLAY_COLOR_TO_RAYLIB_COLOR(color)
CLAY_COLOR_TO_RAYLIB_COLOR(color) ==
    Color(ToUint8(color.r), ToUint8(color.g), ToUint8(color.b), ToUint8(color.a))

\* #define WHITE of raylib.h.
WHITE == Color(255, 255, 255, 255)

\* The commandType values of clay.h. NONE is the tag the switch has no case for.
RecognizedTags == {"TEXT", "IMAGE", "SCISSOR_START", "SCISSOR_END", "RECTANGLE", "BORDER", "CUSTOM"}

CommandTypes == RecognizedTags \cup {"NONE"}

NoRadius == CornerRadius(0, 0, 0, 0)

NoWidth == BorderWidth(0, 0, 0, 0, 0)

\* config->customData: a null pointer, or a CustomLayoutElement.
NullCustom == [null |-> TRUE, type |-> "none", scale |-> 0]

Model3D(scale) == [null |-> FALSE, type |-> "3D_MODEL", scale |-> scale]

\* A payload whose type is no CustomLayoutElementType of renderer.h.
OtherCustom == [null |-> FALSE, type |-> "other", scale |-> 0]

\* A Clay_RenderCommand: the tag, the box and the renderData the cases read.
Command(commandType, boundingBox, color, cornerRadius, width, text, texture, custom) ==
    [commandType  |-> commandType,
     boundingBox  |-> boundingBox,
     color        |-> color,
     cornerRadius |-> cornerRadius,
     width        |-> width,
     text         |-> text,
     texture      |-> texture,
     custom       |-> custom]

NoText == [stringContents |-> <<>>, length |-> 0, fontId |-> 0, fontSize |-> 0, letterSpacing |-> 0]

NoTexture == [id |-> 0, width |-> 0]

\* One drawing operation of the backend, issued for command j.
DrawOp(j, op, args) == [j |-> j, op |-> op, args |-> args]

(***************************************************************************)
(* Clay_Raylib_Render: the drawing operations of each case                 *)
(***************************************************************************)
\* case CLAY_RENDER_COMMAND_TYPE_TEXT: the slice is cloned with a terminating
\* zero, drawn and freed.
TextOps(j, cmd) ==
    LET textData == cmd.text
        cloned == SubSeq(textData.stringContents, 1, textData.length) \o <<NUL>>
    IN  <<DrawOp(j, "DrawTextEx",
                 [font |-> textData.fontId, text |-> cloned,
                  position |-> [x |-> cmd.boundingBox.x, y |-> cmd.boundingBox.y],
                  fontSize |-> Fl(textData.fontSize),
                  spacing |-> Fl(textData.letterSpacing),
                  tint |-> CLAY_COLOR_TO_RAYLIB_COLOR(cmd.color)])>>

\* case CLAY_RENDER_COMMAND_TYPE_IMAGE
ImageOps(j, cmd) ==
    LET c == cmd.color
        tintColor == IF c.r = 0 /\ c.g = 0 /\ c.b = 0 /\ c.a = 0
                     THEN ClayColor(255, 255, 255, 255) ELSE c
    IN  <<DrawOp(j, "DrawTextureEx",
                 [texture |-> cmd.texture.id,
                  position |-> [x |-> cmd.boundingBox.x, y |-> cmd.boundingBox.y],
                  rotation |-> 0,
                  scale |-> Ratio(cmd.boundingBox.width, Fl(cmd.texture.width)),
                  tint |-> CLAY_COLOR_TO_RAYLIB_COLOR(tintColor)])>>

\* ScissorStartOps issuing nothing.
ScissorStartNoPush(j, cmd) == <<>>

\* case CLAY_RENDER_COMMAND_TYPE_SCISSOR_START
ScissorStartOps(j, cmd) ==
    <<DrawOp(j, "BeginScissorMode",
             [x |-> RoundInt(cmd.boundingBox.x), y |-> RoundInt(cmd.boundingBox.y),
              width |-> RoundInt(cmd.boundingBox.width),
              height |-> RoundInt(cmd.boundingBox.height)])>>

\* case CLAY_RENDER_COMMAND_TYPE_SCISSOR_END
ScissorEndOps(j, cmd) == <<DrawOp(j, "EndScissorMode", [none |-> 0])>>

\* case CLAY_RENDER_COMMAND_TYPE_RECTANGLE. DrawRectangle takes int
\* parameters, so the float box is converted; DrawRectangleRounded takes a
\* Rectangle of floats.
RectangleOps(j, cmd) ==
    LET boundingBox == cmd.boundingBox
        config == cmd
    IN  IF config.cornerRadius.topLeft > 0
        THEN LET radius == Ratio(config.cornerRadius.topLeft * 2,
                                 IF boundingBox.width > boundingBox.height
                                 THEN boundingBox.height ELSE boundingBox.width)
             IN  <<DrawOp(j, "DrawRectangleRounded",
                          [rec |-> boundingBox, roundness |-> radius, segments |-> 8,
                           color |-> CLAY_COLOR_TO_RAYLIB_COLOR(config.color)])>>
        ELSE <<DrawOp(j, "DrawRectangle",
                      [posX |-> ToInt(boundingBox.x), posY |-> ToInt(boundingBox.y),
                       width |-> ToInt(boundingBox.width),
                       height |-> ToInt(boundingBox.height),
                       color |-> CLAY_COLOR_TO_RAYLIB_COLOR(config.color)])>>

\* One DrawRectangle of the border case.
EdgeOp(j, edge, posX, posY, width, height, color) ==
    DrawOp(j, "DrawRectangle",
           [edge |-> edge, posX |-> posX, posY |-> posY, width |-> width,
            height |-> height, color |-> color])

\* The four straight edges of the border case: lines 638 to 668.
BorderEdgeOps(j, cmd) ==
    LET b == cmd.boundingBox
        r == cmd.cornerRadius
        w == cmd.width
        color == CLAY_COLOR_TO_RAYLIB_COLOR(cmd.color)
    IN  (IF w.left > 0
         THEN <<EdgeOp(j, "left", RoundInt(b.x), RoundInt(b.y + r.topLeft), w.left,
                       RoundInt(b.height - r.topLeft - r.bottomLeft), color)>>
         ELSE <<>>)
        \o
        (IF w.right > 0
         THEN <<EdgeOp(j, "right", RoundInt(b.x + b.width - Fl(w.right)),
                       RoundInt(b.y + r.topRight), w.right,
                       RoundInt(b.height - r.topRight - r.bottomRight), color)>>
         ELSE <<>>)
        \o
        (IF w.top > 0
         THEN <<EdgeOp(j, "top", RoundInt(b.x + r.topLeft), RoundInt(b.y),
                       RoundInt(b.width - r.topLeft - r.topRight), w.top, color)>>
         ELSE <<>>)
        \o
        (IF w.bottom > 0
         THEN <<EdgeOp(j, "bottom", RoundInt(b.x + r.bottomLeft),
                       RoundInt(b.y + b.height - Fl(w.bottom)),
                       RoundInt(b.width - r.bottomLeft - r.bottomRight), w.bottom, color)>>
         ELSE <<>>)

\* One DrawRing of the border case.
RingOp(j, corner, cx, cy, innerRadius, outerRadius, startAngle, endAngle, color) ==
    DrawOp(j, "DrawRing",
           [corner |-> corner, center |-> [x |-> cx, y |-> cy],
            innerRadius |-> innerRadius, outerRadius |-> outerRadius,
            startAngle |-> startAngle, endAngle |-> endAngle, segments |-> 10,
            color |-> color])

\* An angle of a whole number of degrees.
Deg(n) == Ratio(n, 1)

\* The 0.1 of line 700.
BottomRightStart == Ratio(1, 10)

\* The sectors with the two top corners exchanged.
CornerSectorMirrored(corner) ==
    CASE corner = "topLeft"     -> [startAngle |-> Deg(270), endAngle |-> Deg(360)]
      [] corner = "topRight"    -> [startAngle |-> Deg(180), endAngle |-> Deg(270)]
      [] corner = "bottomLeft"  -> [startAngle |-> Deg(90), endAngle |-> Deg(180)]
      [] corner = "bottomRight" -> [startAngle |-> BottomRightStart, endAngle |-> Deg(90)]

\* The startAngle and endAngle arguments of the four DrawRing calls.
CornerSector(corner) ==
    CASE corner = "topLeft"     -> [startAngle |-> Deg(180), endAngle |-> Deg(270)]
      [] corner = "topRight"    -> [startAngle |-> Deg(270), endAngle |-> Deg(360)]
      [] corner = "bottomLeft"  -> [startAngle |-> Deg(90), endAngle |-> Deg(180)]
      [] corner = "bottomRight" -> [startAngle |-> BottomRightStart, endAngle |-> Deg(90)]

\* The four corner arcs of the border case: lines 669 to 704. The inner radius
\* of the bottom-left arc is taken from width.top.
BorderRingOps(j, cmd) ==
    LET b == cmd.boundingBox
        r == cmd.cornerRadius
        w == cmd.width
        color == CLAY_COLOR_TO_RAYLIB_COLOR(cmd.color)
        Ring(corner, cx, cy, radius, edgeWidth) ==
            RingOp(j, corner, Roundf(cx), Roundf(cy), Roundf(radius - Fl(edgeWidth)), radius,
                   CornerSector(corner).startAngle, CornerSector(corner).endAngle, color)
    IN  (IF r.topLeft > 0
         THEN <<Ring("topLeft", b.x + r.topLeft, b.y + r.topLeft, r.topLeft, w.top)>>
         ELSE <<>>)
        \o
        (IF r.topRight > 0
         THEN <<Ring("topRight", b.x + b.width - r.topRight, b.y + r.topRight,
                     r.topRight, w.top)>>
         ELSE <<>>)
        \o
        (IF r.bottomLeft > 0
         THEN <<Ring("bottomLeft", b.x + r.bottomLeft, b.y + b.height - r.bottomLeft,
                     r.bottomLeft, w.top)>>
         ELSE <<>>)
        \o
        (IF r.bottomRight > 0
         THEN <<Ring("bottomRight", b.x + b.width - r.bottomRight,
                     b.y + b.height - r.bottomRight, r.bottomRight, w.bottom)>>
         ELSE <<>>)

\* case CLAY_RENDER_COMMAND_TYPE_BORDER
BorderOps(j, cmd) == BorderEdgeOps(j, cmd) \o BorderRingOps(j, cmd)

\* scaleValue without the 1.5 clamp.
ScaleValueUnclamped(rootBox) ==
    RatMul(CLAY__MIN(Ratio(1, 1), Ratio(Fl(768), rootBox.height)),
           CLAY__MAX(Ratio(1, 1), Ratio(rootBox.width, Fl(1024))))

\* float scaleValue = CLAY__MIN(CLAY__MIN(1, 768 / rootBox.height)
\*                              * CLAY__MAX(1, rootBox.width / 1024), 1.5f);
ScaleValue(rootBox) ==
    CLAY__MIN(RatMul(CLAY__MIN(Ratio(1, 1), Ratio(Fl(768), rootBox.height)),
                     CLAY__MAX(Ratio(1, 1), Ratio(rootBox.width, Fl(1024)))),
              Ratio(3, 2))

\* positionRay.position: the far point of GetScreenToWorldPointWithZDistance,
\* kept as the arguments of the call.
PositionRay(box, rootBox) ==
    [x |-> Ratio(2 * box.x + box.width, 2 * FloatUnits),
     y |-> Ratio(2 * box.y + box.height + 2 * Fl(20), 2 * FloatUnits),
     screenWidth |-> RoundInt(rootBox.width),
     screenHeight |-> RoundInt(rootBox.height),
     zDistance |-> 140]

\* The Custom case drawing the model whatever the type of the payload.
CustomOpsAnyType(cmds, j, cmd) ==
    LET rootBox == cmds[1].boundingBox
    IN  <<DrawOp(j, "BeginMode3D", [none |-> 0]),
          DrawOp(j, "DrawModel",
                 [position |-> PositionRay(cmd.boundingBox, rootBox),
                  scale |-> RatMul(RatOf(cmd.custom.scale), ScaleValue(rootBox)),
                  tint |-> WHITE]),
          DrawOp(j, "EndMode3D", [none |-> 0])>>

\* case CLAY_RENDER_COMMAND_TYPE_CUSTOM, a payload that is not null.
CustomOps(cmds, j, cmd) ==
    LET customElement == cmd.custom
    IN  IF customElement.type = "3D_MODEL"
        THEN LET rootBox == cmds[1].boundingBox
                 scaleValue == ScaleValue(rootBox)
             IN  <<DrawOp(j, "BeginMode3D", [none |-> 0]),
                   DrawOp(j, "DrawModel",
                          [position |-> PositionRay(cmd.boundingBox, rootBox),
                           scale |-> RatMul(RatOf(customElement.scale), scaleValue),
                           tint |-> WHITE]),
                   DrawOp(j, "EndMode3D", [none |-> 0])>>
        ELSE <<>>

\* Where the loop stands after a case: break goes to j++, the continue of the
\* null payload too, the default case ends the process.
BreakCase(j) == [pc |-> "running", j |-> j + 1]

\* continue replaced by return.
CustomNullReturns(j) == [pc |-> "returned", j |-> j]

CustomNullCase(j) == [pc |-> "running", j |-> j + 1]

\* The default case skipping the command.
DefaultCaseSkips(j) == [pc |-> "running", j |-> j + 1]

\* printf("Error: unhandled render command."); exit(1);
DefaultCase(j) == [pc |-> "exited", j |-> j]

(***************************************************************************)
(* The command arrays given to Clay_Raylib_Render                          *)
(***************************************************************************)
\* Longest array of arbitrary tags.
MaxCommands == 4

\* Largest border width and the corner radius of the border commands.
MaxBorderWidth == 4

BorderRadius == 8

SomeColor == ClayColor(200, 100, 50, 255)

SomeBox == BoundingBox(Fl(10), Fl(20), Fl(100), Fl(50))

\* A box the layout engine placed off the pixel grid.
FractionalBox == BoundingBox(Fl(10) + 1, Fl(20) + 1, Fl(100) + 1, Fl(50) + 1)

SomeText == [stringContents |-> <<"h", "i", "!">>, length |-> 2, fontId |-> 1,
             fontSize |-> 18, letterSpacing |-> 1]

SomeTexture == [id |-> 1, width |-> 64]

\* One command of each tag.
DefaultCommand(tag) ==
    Command(tag, SomeBox, SomeColor,
            IF tag = "BORDER" THEN CornerRadius(Fl(BorderRadius), 0, 0, 0) ELSE NoRadius,
            IF tag = "BORDER" THEN BorderWidth(1, 1, 1, 1, 0) ELSE NoWidth,
            IF tag = "TEXT" THEN SomeText ELSE NoText,
            IF tag = "IMAGE" THEN SomeTexture ELSE NoTexture,
            NullCustom)

\* The first command of a frame: the root element's rectangle, the window.
RootBoxes ==
    {BoundingBox(0, 0, Fl(w), Fl(h)) : w \in {512, 1024, 1280, 2048}, h \in {0, 384, 768, 1536}}

RootCommands ==
    {Command("RECTANGLE", box, SomeColor, NoRadius, NoWidth, NoText, NoTexture, NullCustom)
     : box \in RootBoxes}

RectangleCommands ==
    {Command("RECTANGLE", box, SomeColor, CornerRadius(r, 0, 0, 0), NoWidth, NoText,
             NoTexture, NullCustom)
     : box \in {BoundingBox(0, 0, Fl(100), Fl(50)), BoundingBox(0, 0, Fl(50), Fl(100)),
                FractionalBox},
       r \in {0, Fl(10)}}

BorderWidths ==
    {BorderWidth(0, 0, 0, 0, 0), BorderWidth(2, 2, 2, 2, 0),
     BorderWidth(1, 2, 3, MaxBorderWidth, 0)}

BorderRadii ==
    {CornerRadius(tl, tr, bl, br) : tl \in {0, Fl(BorderRadius)}, tr \in {0, Fl(BorderRadius)},
                                    bl \in {0, Fl(BorderRadius)}, br \in {0, Fl(BorderRadius)}}

BorderCommands ==
    {Command("BORDER", box, SomeColor, r, w, NoText, NoTexture, NullCustom)
     : box \in {SomeBox, FractionalBox}, r \in BorderRadii, w \in BorderWidths}

CustomCommands ==
    {Command("CUSTOM", SomeBox, SomeColor, NoRadius, NoWidth, NoText, NoTexture, c)
     : c \in {NullCustom, OtherCustom, Model3D(Fl(1)), Model3D(Fl(2) + 1)}}

ImageCommands ==
    {Command("IMAGE", SomeBox, c, NoRadius, NoWidth, NoText, SomeTexture, NullCustom)
     : c \in {ClayColor(0, 0, 0, 0), SomeColor}}

DetailCommands == RectangleCommands \cup BorderCommands \cup CustomCommands \cup ImageCommands

(***************************************************************************)
(* Clay_Raylib_Render: the loop                                            *)
(***************************************************************************)
\* renderCommand = Clay_RenderCommandArray_Get(&renderCommands, j)
RenderCommand == renderCommands[cmdIndex + 1]

AtCase(tag) ==
    /\ renderPc = "running"
    /\ cmdIndex < Len(renderCommands)
    /\ RenderCommand.commandType = tag

\* The case issues ops and the loop goes on as next says.
RenderStep(ops, next) ==
    /\ drawLog' = drawLog \o ops
    /\ visited' = Append(visited, cmdIndex)
    /\ renderPc' = next.pc
    /\ cmdIndex' = next.j
    /\ UNCHANGED renderCommands
    /\ UNCHANGED <<arenaVars, styleVars, scrollVars, loopVars, measureVars>>

\* The call: j = 0. The array is any array of up to MaxCommands commands, one
\* per tag, its Custom commands carrying a null payload or one of a type
\* renderer.h does not know, or a root rectangle and one command after it.
Clay_Raylib_Render ==
    /\ renderPc = "idle"
    /\ \/ \E n \in 0..MaxCommands : \E tags \in [1..n -> CommandTypes] :
          \E payload \in {NullCustom, OtherCustom} :
             renderCommands' = [i \in 1..n |-> [DefaultCommand(tags[i]) EXCEPT !.custom = payload]]
       \/ \E root \in RootCommands, cmd \in DetailCommands :
             renderCommands' = <<root, cmd>>
    /\ renderPc' = "running"
    /\ cmdIndex' = 0
    /\ drawLog' = <<>>
    /\ visited' = <<>>
    /\ UNCHANGED <<arenaVars, styleVars, scrollVars, loopVars, measureVars>>

RenderText ==
    /\ AtCase("TEXT")
    /\ RenderStep(TextOps(cmdIndex, RenderCommand), BreakCase(cmdIndex))

RenderImage ==
    /\ AtCase("IMAGE")
    /\ RenderStep(ImageOps(cmdIndex, RenderCommand), BreakCase(cmdIndex))

RenderScissorStart ==
    /\ AtCase("SCISSOR_START")
    /\ RenderStep(ScissorStartOps(cmdIndex, RenderCommand), BreakCase(cmdIndex))

RenderScissorEnd ==
    /\ AtCase("SCISSOR_END")
    /\ RenderStep(ScissorEndOps(cmdIndex, RenderCommand), BreakCase(cmdIndex))

RenderRectangle ==
    /\ AtCase("RECTANGLE")
    /\ RenderStep(RectangleOps(cmdIndex, RenderCommand), BreakCase(cmdIndex))

RenderBorder ==
    /\ AtCase("BORDER")
    /\ RenderStep(BorderOps(cmdIndex, RenderCommand), BreakCase(cmdIndex))

\* if (!customElement) continue; otherwise the inner switch.
RenderCustom ==
    /\ AtCase("CUSTOM")
    /\ IF RenderCommand.custom.null
       THEN RenderStep(<<>>, CustomNullCase(cmdIndex))
       ELSE RenderStep(CustomOps(renderCommands, cmdIndex, RenderCommand), BreakCase(cmdIndex))

\* default: the tag has no case.
RenderUnhandled ==
    /\ renderPc = "running"
    /\ cmdIndex < Len(renderCommands)
    /\ RenderCommand.commandType \notin RecognizedTags
    /\ RenderStep(<<>>, DefaultCase(cmdIndex))

\* j < renderCommands.length fails: the function returns.
RenderReturn ==
    /\ renderPc = "running"
    /\ cmdIndex >= Len(renderCommands)
    /\ renderPc' = "returned"
    /\ UNCHANGED <<renderCommands, cmdIndex, drawLog, visited>>
    /\ UNCHANGED <<arenaVars, styleVars, scrollVars, loopVars, measureVars>>

(***************************************************************************)
(* Raylib_MeasureText                                                      *)
(***************************************************************************)
\* Length of the longest text measured.
MaxTextLen == 3

\* The char '\n', and the character of the first glyph (chars[i] - 32).
NewLine == 10

FirstGlyphChar == 32

\* LoadFontEx(options.fontPath, size, 0, 250): glyphs for 250 characters.
GlyphCount == 250

\* The font raylib ships with: 224 glyphs of base size 10, advanceX and
\* offsetX of 0, the advance being the width of the glyph's rectangle.
DefaultGlyphCount == 224

DefaultBaseSize == 10

\* The base sizes of renderer.fonts: FONT_18, FONT_20, FONT_22, FONT_24.
FontBaseSizes == <<18, 20, 22, 24>>

\* A Font: the glyph table (glyphs and recs, NULL when the load failed), the
\* number of glyphs and the base size.
LoadedFont(baseSize) ==
    [hasGlyphs  |-> TRUE,
     baseSize   |-> baseSize,
     glyphCount |-> GlyphCount,
     glyphs     |-> [index \in 0..(GlyphCount - 1) |->
                       [advanceX |-> IF index % 3 = 0 THEN 0 ELSE (baseSize \div 2) + (index % 4),
                        offsetX  |-> (index % 3) - 1]],
     recs       |-> [index \in 0..(GlyphCount - 1) |->
                       [width |-> Fl((baseSize \div 3) + (index % 5)) + 1]]]

\* The Font of a load that failed: every field zero, glyphs NULL.
FailedFont ==
    [hasGlyphs |-> FALSE, baseSize |-> 0, glyphCount |-> 0, glyphs |-> <<>>, recs |-> <<>>]

GetFontDefault ==
    [hasGlyphs  |-> TRUE,
     baseSize   |-> DefaultBaseSize,
     glyphCount |-> DefaultGlyphCount,
     glyphs     |-> [index \in 0..(DefaultGlyphCount - 1) |-> [advanceX |-> 0, offsetX |-> 0]],
     recs       |-> [index \in 0..(DefaultGlyphCount - 1) |-> [width |-> Fl(3 + (index % 5))]]]

\* renderer.fonts after RenderSetup: the four sizes of one font file, which
\* loads or does not.
LoadedFonts == [id \in 0..3 |-> LoadedFont(FontBaseSizes[id + 1])]

FailedFonts == [id \in 0..3 |-> FailedFont]

\* The characters of the texts measured, as char values: 'a', 'b', ' ', '\n',
\* '\t', and the first byte of a two-byte UTF-8 character (0xC3 as a char).
TextChars == {97, 98, FirstGlyphChar, NewLine, 9, -61}

FontSizes == {18, 24}

\* What a read outside the glyph table finds.
GarbageGlyphs ==
    {[advanceX |-> 0, offsetX |-> 0, width |-> 0], [advanceX |-> 7, offsetX |-> 0, width |-> 0]}

\* fontToUse.glyphs[index] and fontToUse.recs[index].
InTable(font, index) == 0 <= index /\ index < font.glyphCount

GlyphAt(font, index, garbage) ==
    IF InTable(font, index)
    THEN [advanceX |-> font.glyphs[index].advanceX,
          offsetX  |-> font.glyphs[index].offsetX,
          width    |-> font.recs[index].width]
    ELSE garbage

\* What one character adds to lineTextWidth.
GlyphAdvance(glyph) ==
    IF glyph.advanceX # 0 THEN Fl(glyph.advanceX) ELSE glyph.width + Fl(glyph.offsetX)

\* if (!fontToUse.glyphs) fontToUse = GetFontDefault();
FontToUse(fonts, fontId) ==
    IF ~fonts[fontId].hasGlyphs THEN GetFontDefault ELSE fonts[fontId]

RECURSIVE MeasureLoop(_, _, _, _, _, _)
\* The for loop from index i on, with the two accumulators.
MeasureLoop(text, font, garbage, i, maxTextWidth, lineTextWidth) ==
    IF ~(i < Len(text)) THEN [maxTextWidth |-> maxTextWidth, lineTextWidth |-> lineTextWidth]
    ELSE IF text[i + 1] = NewLine
         THEN MeasureLoop(text, font, garbage, i + 1, Fmaxf(maxTextWidth, lineTextWidth), 0)
         ELSE LET index == text[i + 1] - FirstGlyphChar
              IN  MeasureLoop(text, font, garbage, i + 1, maxTextWidth,
                              lineTextWidth + GlyphAdvance(GlyphAt(font, index, garbage)))

\* The function: the dimensions, and whether a read fell outside the table.
MeasureText(text, config, fonts, garbage) ==
    LET textHeight   == Fl(config.fontSize)
        fontToUse    == FontToUse(fonts, config.fontId)
        scaleFactor  == Ratio(config.fontSize, fontToUse.baseSize)
        loop         == MeasureLoop(text, fontToUse, garbage, 0, 0, 0)
        maxTextWidth == Fmaxf(loop.maxTextWidth, loop.lineTextWidth)
    IN  [width  |-> RatMul(RatOf(maxTextWidth), scaleFactor),
         height |-> textHeight,
         ub     |-> \E i \in 1..Len(text) :
                       text[i] # NewLine /\ ~InTable(fontToUse, text[i] - FirstGlyphChar)]

NoDimensions == [width |-> Ratio(0, 1), height |-> 0]

NoMeasure == [text |-> <<>>, fontId |-> 0, fontSize |-> 0, loaded |-> FALSE]

\* One call of the measurement callback: it returns the dimensions; after a
\* read outside the glyph table the build returns what it read or dies.
Raylib_MeasureText ==
    /\ measurePc = "idle"
    /\ \E n \in 0..MaxTextLen : \E text \in [1..n -> TextChars] :
       \E fontId \in 0..3, fontSize \in FontSizes, loaded \in BOOLEAN, garbage \in GarbageGlyphs :
          LET fonts == IF loaded THEN LoadedFonts ELSE FailedFonts
              r == MeasureText(text, [fontId |-> fontId, fontSize |-> fontSize], fonts, garbage)
          IN  /\ measureIn' = [text |-> text, fontId |-> fontId, fontSize |-> fontSize,
                               loaded |-> loaded]
              /\ \E outcome \in (IF r.ub THEN {"returned", "crashed"} ELSE {"returned"}) :
                    /\ measurePc' = outcome
                    /\ measureOut' = IF outcome = "returned"
                                     THEN [width |-> r.width, height |-> r.height]
                                     ELSE NoDimensions
    /\ UNCHANGED <<arenaVars, styleVars, scrollVars, renderVars, loopVars>>

\* The layout engine took the dimensions: the next text can be measured.
TextMeasured ==
    /\ measurePc = "returned"
    /\ measurePc' = "idle"
    /\ measureIn' = NoMeasure
    /\ measureOut' = NoDimensions
    /\ UNCHANGED <<arenaVars, styleVars, scrollVars, renderVars, loopVars>>

(***************************************************************************)
(* RenderSetup: the run loop, and HandleClayErrors                         *)
(***************************************************************************)
\* Clay__defaultMaxElementCount and Clay__defaultMaxMeasureTextWordCacheCount
\* of clay.h: what the layout engine starts with.
DefaultMaxElementCount == 8192

DefaultMaxMeasureTextCacheWordCount == 16384

\* The value RenderSetup gives Clay_SetMaxElementCount when it reinitializes.
ReinitMaxElementCount == 8192

\* Errors the layout engine reports in one run, and the loop iterations
\* counted after an error.
MaxErrors == 3

MaxIterations == 2

ErrorTypes == {"ELEMENTS_CAPACITY_EXCEEDED", "TEXT_MEASUREMENT_CAPACITY_EXCEEDED", "DUPLICATE_ID"}

\* Renderer renderer = {0};
ZeroRenderer ==
    [totalMemorySize |-> [elements |-> 0, words |-> 0],
     clayMemory |-> [capacity |-> [elements |-> 0, words |-> 0]],
     reinitialize |-> FALSE, debugEnabled |-> FALSE, shouldClose |-> FALSE]

\* The layout engine before Clay_Initialize.
DefaultClay ==
    [maxElementCount |-> DefaultMaxElementCount,
     maxMeasureTextCacheWordCount |-> DefaultMaxMeasureTextCacheWordCount]

\* Clay_MinMemorySize(): a size that depends on the two capacities only.
Clay_MinMemorySize(c) ==
    [elements |-> c.maxElementCount, words |-> c.maxMeasureTextCacheWordCount]

\* What the run has seen: the last capacity error and the capacity it found,
\* the reinitializations and loop iterations since, the errors and the
\* Clay_Initialize calls so far.
NoHistory ==
    [errorType |-> "none", raisedAt |-> 0, reinits |-> 0, iterations |-> 0,
     errors |-> 0, initializes |-> 0]

\* Lines 814 to 816 and 835 to 837: the arena of the layout engine is sized and
\* Clay_Initialize called; the new context keeps the capacities in force.
InitializeClay(r, c) ==
    [r EXCEPT !.totalMemorySize = Clay_MinMemorySize(c),
              !.clayMemory = [capacity |-> Clay_MinMemorySize(c)]]

\* The reinitialize block leaving the flag set.
ReinitializeKeepsFlag(r, c) == InitializeClay(r, c)

\* The reinitialize block, after Clay_SetMaxElementCount(8192).
ReinitializeOp(r, c) == [InitializeClay(r, c) EXCEPT !.reinitialize = FALSE]

\* HandleClayErrors: the capacity the error names is doubled.
HandleDoubles(c, errorType) ==
    IF errorType = "ELEMENTS_CAPACITY_EXCEEDED"
    THEN [c EXCEPT !.maxElementCount = c.maxElementCount * 2]
    ELSE IF errorType = "TEXT_MEASUREMENT_CAPACITY_EXCEEDED"
    THEN [c EXCEPT !.maxMeasureTextCacheWordCount = c.maxMeasureTextCacheWordCount * 2]
    ELSE c

IsCapacityError(errorType) ==
    errorType \in {"ELEMENTS_CAPACITY_EXCEEDED", "TEXT_MEASUREMENT_CAPACITY_EXCEEDED"}

\* The capacity an error type is about.
CapacityOf(c, errorType) ==
    IF errorType = "ELEMENTS_CAPACITY_EXCEEDED" THEN c.maxElementCount
    ELSE c.maxMeasureTextCacheWordCount

\* RenderSetup up to the loop: lines 814 to 829.
RenderSetup ==
    /\ loopPc = "start"
    /\ renderer' = InitializeClay(renderer, clay)
    /\ loopPc' = "while"
    /\ loopHist' = [loopHist EXCEPT !.initializes = loopHist.initializes + 1]
    /\ UNCHANGED clay
    /\ UNCHANGED <<arenaVars, styleVars, scrollVars, renderVars, measureVars>>

\* while (!renderer.shouldClose) and line 831: the close key or the window's
\* close button sets shouldClose; the iteration runs to its end all the same.
LoopIteration ==
    /\ loopPc = "while"
    /\ ~renderer.shouldClose
    /\ \E closePressed \in BOOLEAN :
          renderer' = [renderer EXCEPT !.shouldClose = closePressed]
    /\ loopPc' = "reinit"
    /\ loopHist' = [loopHist EXCEPT !.iterations =
                       IF loopHist.iterations < MaxIterations THEN loopHist.iterations + 1
                       ELSE loopHist.iterations]
    /\ UNCHANGED clay
    /\ UNCHANGED <<arenaVars, styleVars, scrollVars, renderVars, measureVars>>

\* if (renderer.reinitialize) { ... }: lines 833 to 839.
Reinitialize ==
    /\ loopPc = "reinit"
    /\ renderer.reinitialize
    /\ clay' = [clay EXCEPT !.maxElementCount = ReinitMaxElementCount]
    /\ renderer' = ReinitializeOp(renderer, clay')
    /\ loopHist' = [loopHist EXCEPT !.reinits = loopHist.reinits + 1,
                                    !.initializes = loopHist.initializes + 1]
    /\ loopPc' = "initDraw"
    /\ UNCHANGED <<arenaVars, styleVars, scrollVars, renderVars, measureVars>>

\* The flag is not set: the block is skipped.
SkipReinitialize ==
    /\ loopPc = "reinit"
    /\ ~renderer.reinitialize
    /\ loopPc' = "initDraw"
    /\ UNCHANGED <<renderer, clay, loopHist>>
    /\ UNCHANGED <<arenaVars, styleVars, scrollVars, renderVars, measureVars>>

\* initDraw(): F2 toggles the debug mode; the pointer, the layout dimensions
\* and the scroll containers are updated. Then updateCallback is entered.
initDraw ==
    /\ loopPc = "initDraw"
    /\ \E f2Pressed \in BOOLEAN :
          renderer' = [renderer EXCEPT !.debugEnabled =
                          IF f2Pressed THEN ~renderer.debugEnabled ELSE renderer.debugEnabled]
    /\ loopPc' = "update"
    /\ UNCHANGED <<clay, loopHist>>
    /\ UNCHANGED <<arenaVars, styleVars, scrollVars, renderVars, measureVars>>

\* updateCallback() returns; the application may have set renderer.shouldClose.
updateCallback ==
    /\ loopPc = "update"
    /\ \E close \in BOOLEAN :
          renderer' = [renderer EXCEPT !.shouldClose = renderer.shouldClose \/ close]
    /\ loopPc' = "draw"
    /\ UNCHANGED <<clay, loopHist>>
    /\ UNCHANGED <<arenaVars, styleVars, scrollVars, renderVars, measureVars>>

\* drawCallback() returns: the end of the iteration.
drawCallback ==
    /\ loopPc = "draw"
    /\ \E close \in BOOLEAN :
          renderer' = [renderer EXCEPT !.shouldClose = renderer.shouldClose \/ close]
    /\ loopPc' = "while"
    /\ UNCHANGED <<clay, loopHist>>
    /\ UNCHANGED <<arenaVars, styleVars, scrollVars, renderVars, measureVars>>

\* The layout engine reports an error while a callback builds the layout.
HandleClayErrors ==
    /\ loopPc \in {"update", "draw"}
    /\ loopHist.errors < MaxErrors
    /\ \E errorType \in ErrorTypes :
          /\ clay' = HandleDoubles(clay, errorType)
          /\ renderer' = [renderer EXCEPT !.reinitialize =
                             IF IsCapacityError(errorType) THEN TRUE ELSE renderer.reinitialize]
          /\ loopHist' = IF IsCapacityError(errorType)
                         THEN [errorType |-> errorType,
                               raisedAt |-> CapacityOf(clay, errorType),
                               reinits |-> 0, iterations |-> 0,
                               errors |-> loopHist.errors + 1,
                               initializes |-> loopHist.initializes]
                         ELSE [loopHist EXCEPT !.errors = loopHist.errors + 1]
    /\ UNCHANGED loopPc
    /\ UNCHANGED <<arenaVars, styleVars, scrollVars, renderVars, measureVars>>

\* The loop ends: CloseWindow().
CloseWindow ==
    /\ loopPc = "while"
    /\ renderer.shouldClose
    /\ loopPc' = "closed"
    /\ UNCHANGED <<renderer, clay, loopHist>>
    /\ UNCHANGED <<arenaVars, styleVars, scrollVars, renderVars, measureVars>>

(***************************************************************************)
(* The state machine                                                       *)
(***************************************************************************)
Init ==
    /\ arena = ArenaInitOp(0, 0)
    /\ mem = <<>>
    /\ arenaPc = "none"
    /\ allocs = <<>>
    /\ lastCall = NoCall
    /\ firstPtr = NoPtr
    /\ wasReset = FALSE
    /\ parsePc = "idle"
    /\ parseIn = [macro |-> "none", options |-> EmptyOptions, defaultOptions |-> ZeroDeclaration]
    /\ parseOut = ZeroDeclaration
    /\ parseDiag = ""
    /\ scrollPc = "none"
    /\ scrollData = NoScrollData
    /\ lastScroll = NoScroll
    /\ renderPc = "idle"
    /\ renderCommands = <<>>
    /\ cmdIndex = 0
    /\ drawLog = <<>>
    /\ visited = <<>>
    /\ loopPc = "start"
    /\ renderer = ZeroRenderer
    /\ clay = DefaultClay
    /\ loopHist = NoHistory
    /\ measurePc = "idle"
    /\ measureIn = NoMeasure
    /\ measureOut = NoDimensions

NextArena == ArenaInit \/ ArenaAlloc \/ F \/ ArenaReset \/ ArenaFree

NextStyle == Box \/ Column \/ Row \/ Separator \/ Margin \/ Component \/ CloseElement

NextScroll ==
    \/ LayoutScrollContainer
    \/ ScrollContainerByY
    \/ ScrollContainerTop
    \/ ScrollContainerBottom
    \/ ScrollContainerByX

NextRender ==
    \/ Clay_Raylib_Render
    \/ RenderText
    \/ RenderImage
    \/ RenderScissorStart
    \/ RenderScissorEnd
    \/ RenderRectangle
    \/ RenderBorder
    \/ RenderCustom
    \/ RenderUnhandled
    \/ RenderReturn

NextLoop ==
    \/ RenderSetup
    \/ LoopIteration
    \/ Reinitialize
    \/ SkipReinitialize
    \/ initDraw
    \/ updateCallback
    \/ drawCallback
    \/ HandleClayErrors
    \/ CloseWindow

NextMeasure == Raylib_MeasureText \/ TextMeasured

Next == NextArena \/ NextStyle \/ NextScroll \/ NextRender \/ NextLoop \/ NextMeasure

SpecArena == Init /\ [][NextArena]_vars

SpecStyle == Init /\ [][NextStyle]_vars

SpecScroll == Init /\ [][NextScroll]_vars

SpecRender == Init /\ [][NextRender]_vars

SpecLoop == Init /\ [][NextLoop]_vars

SpecMeasure == Init /\ [][NextMeasure]_vars

Spec == Init /\ [][Next]_vars


(***************************************************************************)
(* Arena claims                                                            *)
(***************************************************************************)
ByteRange(r) == r.offset .. (r.offset + r.size - 1)

\* C1: with no ArenaReset between them, every two ArenaAlloc calls that return
\* yield disjoint byte ranges [offset, offset+size), each inside [0, bufferLength).
C1_DisjointInBuffer ==
    /\ \A i, j \in 1..Len(allocs) :
          i < j => ByteRange(allocs[i]) \cap ByteRange(allocs[j]) = {}
    /\ \A i \in 1..Len(allocs) :
          ByteRange(allocs[i]) \subseteq 0..(arena.bufferLength - 1)

\* C2: currOffset <= bufferLength always, and an ArenaAlloc whose aligned offset
\* plus size exceeds the capacity aborts on the assertion and leaves prevOffset
\* and currOffset as they were.
C2_OverCapacityAborts ==
    /\ arena.currOffset <= arena.bufferLength
    /\ (lastCall.op \in {"alloc", "F"} /\ lastCall.offset + lastCall.size > arena.bufferLength)
          => /\ lastCall.outcome = "assert"
             /\ arenaPc = "aborted"
             /\ arena.prevOffset = lastCall.entryPrev
             /\ arena.currOffset = lastCall.entryCurr

\* C3: ArenaReset sets currOffset to zero and leaves the buffer pointer, the
\* buffer length and the buffer contents unchanged; the first ArenaAlloc after
\* an ArenaReset returns the address the first ArenaAlloc after ArenaInit returned.
C3_ResetRewinds ==
    /\ [][lastCall'.op = "reset" =>
            /\ arena'.currOffset = 0
            /\ arena'.buffer = arena.buffer
            /\ arena'.bufferLength = arena.bufferLength
            /\ mem' = mem]_vars
    /\ []((/\ lastCall.op = "alloc"
           /\ lastCall.outcome = "returned"
           /\ lastCall.first
           /\ wasReset
           /\ firstPtr # NoPtr) => lastCall.ret = firstPtr)

\* C3 witness: after allocations and a reset, the first ArenaAlloc returned the
\* first address again, over a buffer that still holds what was written before.
C3_Witness ==
    /\ lastCall.op = "alloc"
    /\ lastCall.outcome = "returned"
    /\ lastCall.first
    /\ wasReset
    /\ lastCall.entryPrev > 0
    /\ lastCall.entryCurr = 0
    /\ firstPtr # NoPtr
    /\ lastCall.ret = firstPtr
    /\ \E i \in DOMAIN mem : mem[i] = 65

\* C20 as stated: after every ArenaAlloc that returns, prevOffset is the
\* currOffset the call found on entry, before alignment, and currOffset is the
\* aligned offset plus the requested size.
C20_PrevIsEntryOffset ==
    (lastCall.op \in {"alloc", "F"} /\ lastCall.outcome = "returned") =>
        /\ arena.prevOffset = lastCall.entryCurr
        /\ arena.currOffset = lastCall.offset + lastCall.size

\* C20 amended: after every ArenaAlloc that returns, prevOffset is the aligned
\* offset, the offset of the block returned: the first offset at or after the
\* currOffset found on entry whose address is a multiple of the alignment; and
\* currOffset is the aligned offset plus the requested size as size_t
\* arithmetic computes it.
C20_PrevIsAlignedOffset ==
    (lastCall.op \in {"alloc", "F"} /\ lastCall.outcome = "returned") =>
        /\ lastCall.offset >= lastCall.entryCurr
        /\ lastCall.offset - lastCall.entryCurr < DEFAULT_ALIGNMENT
        /\ (arena.buffer + lastCall.offset) % DEFAULT_ALIGNMENT = 0
        /\ lastCall.ret = arena.buffer + lastCall.offset
        /\ arena.prevOffset = lastCall.offset
        /\ arena.currOffset = (lastCall.offset + lastCall.size) % SizeMod

\* An allocation returned whose block starts after the offset found on entry.
C20_Witness ==
    /\ lastCall.op = "alloc"
    /\ lastCall.outcome = "returned"
    /\ lastCall.entryCurr = 1
    /\ arena.prevOffset = DEFAULT_ALIGNMENT
    /\ arena.currOffset = DEFAULT_ALIGNMENT + 1

\* C21: ArenaInit(capacity) returns an arena whose bufferLength is capacity,
\* whose prevOffset and currOffset are 0, and whose buffer holds capacity bytes
\* that are all zero.
C21_InitZeroed ==
    lastCall.op = "init" =>
        /\ arena.bufferLength = lastCall.size
        /\ arena.prevOffset = 0
        /\ arena.currOffset = 0
        /\ Len(mem) = lastCall.size
        /\ \A i \in DOMAIN mem : mem[i] = 0

(***************************************************************************)
(* Style token claims                                                      *)
(***************************************************************************)
\* The string a char[n] field holds.
FieldString(arr) == SubSeq(arr, 1, Strnlen(arr, Len(arr)))

\* The value a decimal literal of the requests denotes.
LiteralValue(n) ==
    CASE n = <<"0">> -> 0
      [] n = <<"5">> -> 5
      [] n = <<"5", "0">> -> 50
      [] n = <<"1", "2", "0">> -> 120

\* C4: an empty request resolves to the defaults, in every field.
C4_EmptyRequestIsDefaults ==
    (parsePc = "returned" /\ parseIn.options = EmptyOptions)
        => parseOut = parseIn.defaultOptions

\* C4 witness: the empty request on defaults that set every field.
C4_Witness ==
    /\ parsePc = "returned"
    /\ parseIn.options = EmptyOptions
    /\ parseIn.defaultOptions = callerDefaultOptions
    /\ parseOut = callerDefaultOptions

MostSpecific(edge, axis, whole, default) ==
    IF edge # 0 THEN edge ELSE IF axis # 0 THEN axis ELSE IF whole # 0 THEN whole ELSE default

\* C5: each padding edge resolves to the single-edge field if set, else the
\* axis field if set, else p if set, else the default's value for that edge.
C5_PaddingMostSpecific ==
    parsePc = "returned" =>
        LET o == parseIn.options
            d == parseIn.defaultOptions.layout.padding
            r == parseOut.layout.padding
        IN  /\ r.top    = MostSpecific(o.pt, o.py, o.p, d.top)
            /\ r.bottom = MostSpecific(o.pb, o.py, o.p, d.bottom)
            /\ r.left   = MostSpecific(o.pl, o.px, o.p, d.left)
            /\ r.right  = MostSpecific(o.pr, o.px, o.p, d.right)

\* C5 witness: one edge from its own field over axis and whole, one from the
\* axis over whole, one from whole, one from its own field over whole.
C5_Witness ==
    /\ parsePc = "returned"
    /\ parseIn.defaultOptions = callerDefaultOptions
    /\ parseIn.options.p = 1 /\ parseIn.options.py = 3 /\ parseIn.options.pt = 4
    /\ parseIn.options.pb = 0 /\ parseIn.options.px = 0 /\ parseIn.options.pl = 0
    /\ parseIn.options.pr = 7
    /\ parseOut.layout.padding = Padding(1, 7, 4, 3)

\* The corners a direction selects.
SelectedCorners(d) ==
    CASE d = <<"t">> -> {"topLeft", "topRight"}
      [] d = <<"b">> -> {"bottomLeft", "bottomRight"}
      [] d = <<"l">> -> {"topLeft", "bottomLeft"}
      [] d = <<"r">> -> {"topRight", "bottomRight"}
      [] d = <<"t", "l">> -> {"topLeft"}
      [] d = <<"t", "r">> -> {"topRight"}
      [] d = <<"b", "l">> -> {"bottomLeft"}
      [] d = <<"b", "r">> -> {"bottomRight"}
      [] d = <<"a">> -> {"topLeft", "topRight", "bottomLeft", "bottomRight"}

SizeValue(z) ==
    CASE z = <<"x", "s">> -> 2
      [] z = <<"s", "m">> -> 4
      [] z = <<"m", "d">> -> 6
      [] z = <<"l", "g">> -> 8
      [] z = <<"x", "l">> -> 12
      [] z = <<"2", "x", "l">> -> 16
      [] z = <<"3", "x", "l">> -> 24

Corners == {"topLeft", "topRight", "bottomLeft", "bottomRight"}

\* C6: a corner-radius token {direction}-{size} sets exactly the corners the
\* direction selects to the size's value, and every other corner keeps the
\* value it has in the defaults.
C6_RadiusKeepsOtherCorners ==
    parsePc = "returned" =>
        \A d \in Directions, z \in SizeNames :
            FieldString(parseIn.options.borderRadius) = Tok(d, z) =>
                \A c \in Corners :
                    parseOut.cornerRadius[c] =
                        IF c \in SelectedCorners(d) THEN SizeValue(z)
                        ELSE parseIn.defaultOptions.cornerRadius[c]

ExpectedSizing(m, n) ==
    CASE Len(m) = 3 -> CLAY_SIZING_FIT(LiteralValue(n))
      [] Len(m) = 4 -> CLAY_SIZING_GROW(LiteralValue(n))
      [] Len(m) = 5 -> CLAY_SIZING_FIXED(LiteralValue(n))
      [] Len(m) = 7 -> CLAY_SIZING_PERCENT(LiteralValue(n))

AxisAsClaimed(token, default, out) ==
    /\ token.null => out = default
    /\ \A m \in Modes \cup BadModes, n \in SizeLiterals :
          (token = CStr(Tok(m, n)) /\ Len(m) \in {3, 4, 5, 7}) => out = ExpectedSizing(m, n)

\* C7: for width and height independently, a token {mode}-{n} whose mode part
\* has length 3, 4, 5 or 7 resolves to fit, grow, fixed or percent with
\* parameter n; an absent token leaves the axis's default sizing, whatever the
\* other axis's token is.
C7_SizingByModeLength ==
    parsePc = "returned" =>
        /\ AxisAsClaimed(parseIn.options.w, parseIn.defaultOptions.layout.sizing.width,
                         parseOut.layout.sizing.width)
        /\ AxisAsClaimed(parseIn.options.h, parseIn.defaultOptions.layout.sizing.height,
                         parseOut.layout.sizing.height)

\* C7 witness: w = "fixed-120" alone, on defaults whose height is a percentage.
C7_Witness ==
    /\ parsePc = "returned"
    /\ parseIn.defaultOptions = callerDefaultOptions
    /\ parseIn.options.w = CStr(Tok(<<"f", "i", "x", "e", "d">>, <<"1", "2", "0">>))
    /\ parseIn.options.h = NULL
    /\ parseOut.layout.sizing.width = [type |-> "FIXED", min |-> 120, max |-> 120, percent |-> 0]
    /\ parseOut.layout.sizing.height = [type |-> "PERCENT", min |-> 0, max |-> 0, percent |-> 25]

SelectedEdges(d) ==
    CASE d = <<"t">> -> {"top"}
      [] d = <<"b">> -> {"bottom"}
      [] d = <<"l">> -> {"left"}
      [] d = <<"r">> -> {"right"}
      [] d = <<"a">> -> {"top", "bottom", "left", "right"}

Edges == {"top", "bottom", "left", "right"}

\* C8: with a non-transparent border color, a token {side}-{width} sets the
\* selected edges to the width, leaves the other edges at zero and stores the
\* request's color; with a transparent color the border is the defaults'.
C8_BorderNeedsColor ==
    parsePc = "returned" =>
        /\ parseIn.options.border.color.a # 0 =>
              \A d \in Sides, n \in WidthLiterals :
                  FieldString(parseIn.options.border.width) = Tok(d, n) =>
                      /\ \A e \in Edges :
                            parseOut.border.width[e] =
                                IF e \in SelectedEdges(d) THEN LiteralValue(n) ELSE 0
                      /\ parseOut.border.color = parseIn.options.border.color
        /\ parseIn.options.border.color.a = 0 =>
              parseOut.border = parseIn.defaultOptions.border

\* C8 witness: "a-50" in a non-transparent color over defaults with a border.
C8_Witness ==
    /\ parsePc = "returned"
    /\ parseIn.defaultOptions = callerDefaultOptions
    /\ parseIn.options.border.color = Color(239, 68, 68, 255)
    /\ FieldString(parseIn.options.border.width) = <<"a", "-", "5", "0">>
    /\ parseOut.border.width.top = 50 /\ parseOut.border.width.bottom = 50
    /\ parseOut.border.width.left = 50 /\ parseOut.border.width.right = 50
    /\ parseOut.border.color = Color(239, 68, 68, 255)

\* C8 witness, second case: a width token with a transparent color.
C8_WitnessTransparent ==
    /\ parsePc = "returned"
    /\ parseIn.defaultOptions = callerDefaultOptions
    /\ parseIn.options.border.color.a = 0
    /\ FieldString(parseIn.options.border.width) = <<"a", "-", "5", "0">>
    /\ parseOut.border = callerDefaultOptions.border

HasDash(str) == \E i \in 1..Len(str) : str[i] = "-"

\* The part before the last '-', and the part after it.
Before(str) == SubSeq(str, 1, Strrchr(str, "-"))

After(str) == SubSeq(str, Strrchr(str, "-") + 2, Len(str))

MalformedRadius(o) ==
    LET t == FieldString(o.borderRadius)
    IN  t # <<>> /\ (~HasDash(t) \/ Before(t) \notin Directions \/ After(t) \notin SizeNames)

MalformedBorder(o) ==
    LET t == FieldString(o.border.width)
    IN  o.border.color.a # 0 /\ (~HasDash(t) \/ <<t[1]>> \notin Sides)

MalformedSizing(token) ==
    ~token.null /\ (~HasDash(token.chars) \/ Len(Before(token.chars)) \notin {3, 4, 5, 7})

\* C9: a malformed style token aborts the resolution with a diagnostic: a
\* corner-radius token with an unknown direction or size, a border token with
\* an unknown side, a sizing token whose mode length is not 3, 4, 5 or 7, and
\* any of them without a '-'.
C9_MalformedAborts ==
    (/\ parsePc # "idle"
     /\ \/ MalformedRadius(parseIn.options)
        \/ MalformedBorder(parseIn.options)
        \/ MalformedSizing(parseIn.options.w)
        \/ MalformedSizing(parseIn.options.h))
        => (parsePc = "aborted" /\ parseDiag # "")

\* The lengths the border radius block and the border block copy with: the
\* part before the last '-' of the token and the part after it.
PartLens(arr) ==
    LET stringLen == Strnlen(arr, TokenFieldSize)
        delimiter == Strrchr(SubSeq(arr, 1, stringLen), "-")
    IN  [hasDash |-> delimiter # -1, left |-> delimiter, right |-> stringLen - (delimiter + 1)]

\* The call reached the copies of the border radius block: the token is not
\* empty and holds a '-'.
RadiusCopied(options) ==
    options.borderRadius[1] # NUL /\ PartLens(options.borderRadius).hasDash

\* The call reached the copy of the border block: the radius block did not end
\* the call, the color is not transparent and the token holds a '-'.
WidthCopied(options) ==
    /\ options.borderRadius[1] # NUL => PartLens(options.borderRadius).hasDash
    /\ options.border.color.a # 0
    /\ PartLens(options.border.width).hasDash

\* C23: for every corner-radius token and every border-width token that holds
\* a '-' and fits the 6-byte request field, the parts are copied inside the
\* local buffers, terminating zero included: the direction part has length
\* <= 2 and the size or width part has length <= 3 whenever the copy is reached.
C23_CopiesInsideBuffers ==
    parsePc # "idle" =>
        LET options == parseIn.options
            radius  == PartLens(options.borderRadius)
            width   == PartLens(options.border.width)
        IN  /\ RadiusCopied(options) =>
                  /\ radius.left + 1 <= DirectionStrSize
                  /\ radius.right + 1 <= SizeStrSize
            /\ WidthCopied(options) => width.right + 1 <= WidthStrSize

(***************************************************************************)
(* Scroll claims                                                           *)
(***************************************************************************)
\* -max(0, c - v)
ScrollEnd(c, v) == IF c - v > 0 THEN -(c - v) ELSE 0

\* C10: after any sequence of scroll calls the offset of each axis stays in
\* [-max(0, c - v), 0], and a scroll-by that overshoots the end lands exactly
\* on -max(0, c - v).
C10_ScrollStaysInRange ==
    scrollPc = "open" =>
        LET endX == ScrollEnd(scrollData.contentDimensions.width,
                              scrollData.scrollContainerDimensions.width)
            endY == ScrollEnd(scrollData.contentDimensions.height,
                              scrollData.scrollContainerDimensions.height)
        IN  /\ endX <= scrollData.scrollPosition.x /\ scrollData.scrollPosition.x <= 0
            /\ endY <= scrollData.scrollPosition.y /\ scrollData.scrollPosition.y <= 0
            /\ (lastScroll.op = "byY" /\ lastScroll.before + lastScroll.delta <= endY)
                  => scrollData.scrollPosition.y = endY
            /\ (lastScroll.op = "byX" /\ lastScroll.before + lastScroll.delta <= endX)
                  => scrollData.scrollPosition.x = endX

\* C10 witness: content 500 in a viewport of 200, already at -300, scrolled by
\* -1000 again: the offset is still -300.
C10_Witness ==
    /\ scrollPc = "open"
    /\ scrollData.contentDimensions.height = 500
    /\ scrollData.scrollContainerDimensions.height = 200
    /\ lastScroll = [op |-> "byY", delta |-> -1000, before |-> -300]
    /\ scrollData.scrollPosition.y = -300

(***************************************************************************)
(* Render command interpreter claims                                       *)
(***************************************************************************)
\* The operations of drawLog issued for command i.
OpsFor(i) ==
    LET ForI(o) == o.j = i
    IN  SelectSeq(drawLog, ForI)

IsScissor(cmd) == cmd.commandType \in {"SCISSOR_START", "SCISSOR_END"}

\* ScissorStart commands minus ScissorEnd commands among the first n.
Depth(cmds, n) ==
    Cardinality({i \in 1..n : cmds[i].commandType = "SCISSOR_START"})
    - Cardinality({i \in 1..n : cmds[i].commandType = "SCISSOR_END"})

ProperlyNested(cmds) ==
    /\ \A n \in 0..Len(cmds) : Depth(cmds, n) >= 0
    /\ Depth(cmds, Len(cmds)) = 0

\* The clip pushes and pops issued so far, in order.
ClipOps ==
    LET IsClip(o) == o.op \in {"BeginScissorMode", "EndScissorMode"}
    IN  SelectSeq(drawLog, IsClip)

OpenClips ==
    Cardinality({k \in 1..Len(ClipOps) : ClipOps[k].op = "BeginScissorMode"})
    - Cardinality({k \in 1..Len(ClipOps) : ClipOps[k].op = "EndScissorMode"})

\* The indexes of the scissor commands among those the loop has passed.
ScissorsPassed ==
    LET passed == [k \in 1..Len(visited) |-> visited[k]]
        Scissor(i) == IsScissor(renderCommands[i + 1])
    IN  SelectSeq(passed, Scissor)

\* C11: for a command array whose ScissorStart/ScissorEnd are properly nested,
\* the clip operations issued are, in order, one push per ScissorStart and one
\* pop per ScissorEnd passed; the number of open clip regions is never
\* negative, and it is zero when Clay_Raylib_Render has returned.
C11_ScissorsBalanced ==
    ProperlyNested(renderCommands) =>
        /\ Len(ClipOps) = Len(ScissorsPassed)
        /\ \A k \in 1..Len(ClipOps) :
              /\ ClipOps[k].j = ScissorsPassed[k]
              /\ ClipOps[k].op =
                    IF renderCommands[ScissorsPassed[k] + 1].commandType = "SCISSOR_START"
                    THEN "BeginScissorMode" ELSE "EndScissorMode"
        /\ OpenClips >= 0
        /\ renderPc = "returned" => OpenClips = 0

\* Two clip regions, one inside the other, were opened and closed.
C11_Witness ==
    /\ renderPc = "returned"
    /\ Len(renderCommands) = 4
    /\ [i \in 1..4 |-> renderCommands[i].commandType]
          = <<"SCISSOR_START", "SCISSOR_START", "SCISSOR_END", "SCISSOR_END">>
    /\ Len(ClipOps) = 4

Unrecognized(cmds) == {i \in 0..(Len(cmds) - 1) : cmds[i + 1].commandType \notin RecognizedTags}

\* The index of the first command whose tag has no case.
FirstUnrecognized(cmds) ==
    CHOOSE i \in Unrecognized(cmds) : \A k \in Unrecognized(cmds) : i <= k

\* The operations the cases issue for command i of cmds.
OpsOf(cmds, i) ==
    LET cmd == cmds[i + 1]
        tag == cmd.commandType
    IN  CASE tag = "TEXT"          -> TextOps(i, cmd)
          [] tag = "IMAGE"         -> ImageOps(i, cmd)
          [] tag = "SCISSOR_START" -> ScissorStartOps(i, cmd)
          [] tag = "SCISSOR_END"   -> ScissorEndOps(i, cmd)
          [] tag = "RECTANGLE"     -> RectangleOps(i, cmd)
          [] tag = "BORDER"        -> BorderOps(i, cmd)
          [] tag = "CUSTOM"        -> IF cmd.custom.null THEN <<>> ELSE CustomOps(cmds, i, cmd)
          [] OTHER                 -> <<>>

RECURSIVE OpsUpTo(_, _)
\* The operations of commands 0 .. n - 1, in index order.
OpsUpTo(cmds, n) == IF n = 0 THEN <<>> ELSE OpsUpTo(cmds, n - 1) \o OpsOf(cmds, n - 1)

\* C12: when the array holds a command whose tag has no case, the call never
\* returns and never goes past the first such command, no drawing operation is
\* issued for it or for a later command, and when the process has exited every
\* earlier command has been drawn, in order.
C12_UnhandledHalts ==
    /\ renderPc = "exited" => Unrecognized(renderCommands) # {}
    /\ Unrecognized(renderCommands) # {} =>
          LET u == FirstUnrecognized(renderCommands)
          IN  /\ renderPc # "returned"
              /\ cmdIndex <= u
              /\ \A k \in 1..Len(drawLog) : drawLog[k].j < u
              /\ renderPc = "exited" =>
                    /\ cmdIndex = u
                    /\ visited = [k \in 1..(u + 1) |-> k - 1]
                    /\ drawLog = OpsUpTo(renderCommands, u)

\* The process exited at the third command, after drawing two.
C12_Witness ==
    /\ renderPc = "exited"
    /\ cmdIndex = 2
    /\ Len(renderCommands) = 4
    /\ Len(drawLog) >= 2

\* C13: a Rectangle command with top-left radius 0 gives one DrawRectangle
\* with the command's bounding box and background colour; with a top-left
\* radius r > 0 it gives one DrawRectangleRounded with the same box and colour
\* and roundness (r * 2) / min(width, height).
C13_RectangleDraw ==
    \A k \in 1..Len(visited) :
       LET i == visited[k]
           cmd == renderCommands[i + 1]
           box == cmd.boundingBox
           ops == OpsFor(i)
           r == cmd.cornerRadius.topLeft
           shorter == IF box.width < box.height THEN box.width ELSE box.height
       IN  cmd.commandType = "RECTANGLE" =>
              /\ Len(ops) = 1
              /\ ops[1].args.color = CLAY_COLOR_TO_RAYLIB_COLOR(cmd.color)
              /\ r = 0 =>
                    /\ ops[1].op = "DrawRectangle"
                    /\ BoundingBox(Fl(ops[1].args.posX), Fl(ops[1].args.posY),
                                   Fl(ops[1].args.width), Fl(ops[1].args.height)) = box
              /\ r > 0 =>
                    /\ ops[1].op = "DrawRectangleRounded"
                    /\ ops[1].args.rec = box
                    /\ ops[1].args.roundness.num * shorter = r * 2 * ops[1].args.roundness.den

\* The state part of C16.
IndexOrder ==
    /\ \A a \in 1..Len(drawLog) : \A b \in 1..Len(drawLog) :
          a < b => drawLog[a].j <= drawLog[b].j
    /\ visited = [k \in 1..Len(visited) |-> k - 1]
    /\ Len(visited) <= Len(renderCommands)
    /\ Unrecognized(renderCommands) = {} =>
          /\ renderPc # "exited"
          /\ renderPc = "running" => Len(visited) = cmdIndex
          /\ renderPc = "returned" =>
                /\ Len(visited) = Len(renderCommands)
                /\ drawLog = OpsUpTo(renderCommands, Len(renderCommands))

\* C16: the commands are processed strictly in index order: the drawing
\* operations are issued in the order of their commands, the switch is entered
\* for the indexes 0, 1, 2, ... each once, every step of the loop moves to the
\* next index or ends the loop, and for an array of recognized tags the process
\* does not exit and the call returns only after every command was visited.
C16_IndexOrder ==
    /\ []IndexOrder
    /\ [][renderPc = "running" =>
             \/ renderPc' = "running" /\ cmdIndex' = cmdIndex + 1
                   /\ cmdIndex < Len(renderCommands)
             \/ renderPc' = "exited" /\ cmdIndex < Len(renderCommands)
             \/ renderPc' = "returned" /\ cmdIndex = Len(renderCommands)]_vars

\* The call returned from an array of four recognized commands, one of them a
\* Custom command with a null payload, having drawn for the other three.
C16_Witness ==
    /\ renderPc = "returned"
    /\ Len(renderCommands) = 4
    /\ Unrecognized(renderCommands) = {}
    /\ renderCommands[2].commandType = "CUSTOM"
    /\ {drawLog[k].j : k \in 1..Len(drawLog)} = {0, 2, 3}

CornerNames == {"topLeft", "topRight", "bottomLeft", "bottomRight"}

RadiusAt(cmd, corner) ==
    CASE corner = "topLeft"     -> cmd.cornerRadius.topLeft
      [] corner = "topRight"    -> cmd.cornerRadius.topRight
      [] corner = "bottomLeft"  -> cmd.cornerRadius.bottomLeft
      [] corner = "bottomRight" -> cmd.cornerRadius.bottomRight

\* The widths of the two edges that meet at a corner.
AdjacentWidths(cmd, corner) ==
    CASE corner = "topLeft"     -> {cmd.width.top, cmd.width.left}
      [] corner = "topRight"    -> {cmd.width.top, cmd.width.right}
      [] corner = "bottomLeft"  -> {cmd.width.bottom, cmd.width.left}
      [] corner = "bottomRight" -> {cmd.width.bottom, cmd.width.right}

\* The DrawRing operations issued for command i at one corner.
RingsFor(i, corner) ==
    LET AtCorner(o) == o.j = i /\ o.op = "DrawRing" /\ o.args.corner = corner
    IN  SelectSeq(drawLog, AtCorner)

\* The Border commands the loop has passed.
BordersPassed ==
    {i \in {visited[k] : k \in 1..Len(visited)} : renderCommands[i + 1].commandType = "BORDER"}

\* C17: for a Border command every corner with radius > 0 gets one ring arc
\* whose outer radius is the corner's radius and whose inner radius is that
\* radius minus the width of an edge adjacent to the corner; a corner with
\* radius 0 gets no arc.
C17_RingRadii ==
    \A i \in BordersPassed : \A corner \in CornerNames :
       LET cmd == renderCommands[i + 1]
           radius == RadiusAt(cmd, corner)
           rings == RingsFor(i, corner)
       IN  /\ radius = 0 => rings = <<>>
           /\ radius > 0 =>
                 /\ Len(rings) = 1
                 /\ rings[1].args.outerRadius = radius
                 /\ \E w \in AdjacentWidths(cmd, corner) :
                       rings[1].args.innerRadius = radius - Fl(w)

\* The sectors as the claim lists them.
ClaimedSector(corner) ==
    CASE corner = "topLeft"     -> [startAngle |-> Deg(180), endAngle |-> Deg(270)]
      [] corner = "topRight"    -> [startAngle |-> Deg(270), endAngle |-> Deg(360)]
      [] corner = "bottomLeft"  -> [startAngle |-> Deg(90), endAngle |-> Deg(180)]
      [] corner = "bottomRight" -> [startAngle |-> Deg(0), endAngle |-> Deg(90)]

\* The sectors with the bottom-right arc starting at 0.1 degrees.
AmendedSector(corner) ==
    IF corner = "bottomRight" THEN [startAngle |-> Ratio(1, 10), endAngle |-> Deg(90)]
    ELSE ClaimedSector(corner)

\* Every arc drawn for a passed Border command spans sector(corner) and has
\* the border colour.
ArcsSpan(sector(_)) ==
    \A i \in BordersPassed : \A corner \in CornerNames :
       LET rings == RingsFor(i, corner)
       IN  \A k \in 1..Len(rings) :
              /\ rings[k].args.startAngle = sector(corner).startAngle
              /\ rings[k].args.endAngle = sector(corner).endAngle
              /\ rings[k].args.color = CLAY_COLOR_TO_RAYLIB_COLOR(renderCommands[i + 1].color)

\* C18 as stated: the corner arcs of a Border command span top-left 180 to
\* 270, top-right 270 to 360, bottom-left 90 to 180 and bottom-right 0 to 90
\* degrees, each in the border colour.
C18_SectorsAsClaimed == ArcsSpan(ClaimedSector)

\* C18 amended: the corner arcs of a Border command span top-left 180 to 270,
\* top-right 270 to 360, bottom-left 90 to 180 and bottom-right 0.1 to 90
\* degrees, each in the border colour.
C18_Sectors == ArcsSpan(AmendedSector)

\* A border with four rounded corners was drawn: four arcs.
C18_Witness ==
    /\ renderPc = "returned"
    /\ \E i \in BordersPassed :
          \A corner \in CornerNames : Len(RingsFor(i, corner)) = 1

\* The first factor of the scale as the claim has it, min(1, height / 768),
\* and as amended, min(1, 768 / height) (1 for a height of 0): a quotient.
ClaimedFirstFactor(height) ==
    IF height >= Fl(768) THEN [num |-> 1, den |-> 1] ELSE [num |-> height, den |-> Fl(768)]

AmendedFirstFactor(height) ==
    IF height <= Fl(768) THEN [num |-> 1, den |-> 1] ELSE [num |-> Fl(768), den |-> height]

\* min(1.5, first * max(1, width / 1024)), a quotient.
DisplayScale(first, width) ==
    LET second == IF width <= Fl(1024) THEN [num |-> 1, den |-> 1]
                  ELSE [num |-> width, den |-> Fl(1024)]
        num == first.num * second.num
        den == first.den * second.den
    IN  IF 2 * num > 3 * den THEN [num |-> 3, den |-> 2] ELSE [num |-> num, den |-> den]

\* Every passed Custom command with a 3D-model payload issued BeginMode3D,
\* one DrawModel and EndMode3D, the model's scale multiplied by the display
\* scale that firstFactor gives for the box of the first command.
ModelDrawn(firstFactor(_)) ==
    \A k \in 1..Len(visited) :
       LET i == visited[k]
           cmd == renderCommands[i + 1]
           ops == OpsFor(i)
           rootBox == renderCommands[1].boundingBox
           factor == DisplayScale(firstFactor(rootBox.height), rootBox.width)
       IN  (cmd.commandType = "CUSTOM" /\ ~cmd.custom.null /\ cmd.custom.type = "3D_MODEL") =>
              /\ [n \in 1..Len(ops) |-> ops[n].op] = <<"BeginMode3D", "DrawModel", "EndMode3D">>
              /\ ops[2].args.scale.num * FloatUnits * factor.den
                    = ops[2].args.scale.den * cmd.custom.scale * factor.num

\* C19 as stated: the display scale applied to the model's scale is
\* min(1.5, min(1, referenceHeight / 768) * max(1, referenceWidth / 1024)) for
\* the box of the first command, and the model is drawn inside a 3D scope
\* entered and exited around that one draw.
C19_ScaleAsClaimed == ModelDrawn(ClaimedFirstFactor)

\* C19 amended: the display scale is
\* min(1.5, min(1, 768 / referenceHeight) * max(1, referenceWidth / 1024)), the
\* first factor being 1 for a reference height of 0; the rest as stated.
C19_Scale == ModelDrawn(AmendedFirstFactor)

\* A model was drawn under a root box that is both taller than 768 and wider
\* than 1024, and under one that is clamped to 1.5.
C19_Witness ==
    /\ renderPc = "returned"
    /\ Len(renderCommands) = 2
    /\ renderCommands[2].custom.type = "3D_MODEL"
    /\ renderCommands[1].boundingBox.height = Fl(1536)
    /\ renderCommands[1].boundingBox.width = Fl(1280)
    /\ Len(OpsFor(1)) = 3
    /\ OpsFor(1)[2].args.scale.den # 1

\* A Custom command the case has nothing to draw for: the payload pointer is
\* null, or the payload is not the 3D-model variant.
SkippedCustom(cmd) ==
    /\ cmd.commandType = "CUSTOM"
    /\ cmd.custom.null \/ cmd.custom.type # "3D_MODEL"

\* C24: a Custom command whose payload pointer is null, or whose payload type
\* is not the 3D-model variant, issues no drawing operation and does not halt
\* the process: the loop goes on to the next command, and the commands handled
\* so far, those after it included, have been drawn in order.
C24_CustomSkipped ==
    \A k \in 1..Len(visited) :
       LET i == visited[k]
       IN  SkippedCustom(renderCommands[i + 1]) =>
              /\ OpsFor(i) = <<>>
              /\ cmdIndex > i
              /\ renderPc = "exited" => cmdIndex \in Unrecognized(renderCommands)
              /\ drawLog = OpsUpTo(renderCommands, cmdIndex)

\* The call returned from four commands, the second a Custom command whose
\* payload is not the 3D-model variant, having drawn for the two after it.
C24_Witness ==
    /\ renderPc = "returned"
    /\ Len(renderCommands) = 4
    /\ renderCommands[2].commandType = "CUSTOM"
    /\ ~renderCommands[2].custom.null
    /\ renderCommands[2].custom.type # "3D_MODEL"
    /\ OpsFor(1) = <<>>
    /\ OpsFor(2) # <<>>
    /\ OpsFor(3) # <<>>

(***************************************************************************)
(* Text measurement claims                                                 *)
(***************************************************************************)
RECURSIVE SplitLines(_)
\* The newline-separated lines of a text.
SplitLines(text) ==
    IF \A i \in 1..Len(text) : text[i] # NewLine THEN <<text>>
    ELSE LET k == CHOOSE i \in 1..Len(text) :
                     text[i] = NewLine /\ \A j \in 1..(i - 1) : text[j] # NewLine
         IN  <<SubSeq(text, 1, k - 1)>> \o SplitLines(SubSeq(text, k + 1, Len(text)))

\* The advance of the glyph of character c: advanceX, or the width of the
\* glyph's box + offsetX when advanceX is 0; nothing for a character the font
\* has no glyph for.
AdvanceOf(font, c) ==
    LET index == c - FirstGlyphChar
    IN  IF ~InTable(font, index) THEN 0
        ELSE IF font.glyphs[index].advanceX # 0 THEN Fl(font.glyphs[index].advanceX)
        ELSE font.recs[index].width + Fl(font.glyphs[index].offsetX)

RECURSIVE LineSum(_, _)
LineSum(font, line) ==
    IF line = <<>> THEN 0 ELSE AdvanceOf(font, Head(line)) + LineSum(font, Tail(line))

LargestLineSum(font, text) ==
    LET lines == SplitLines(text)
        sums  == {LineSum(font, lines[k]) : k \in 1..Len(lines)}
    IN  CHOOSE m \in sums : \A s \in sums : s <= m

\* The font the call measures with: the selected one, or the backend default
\* when the selected one has no glyph table.
FontMeasured ==
    IF measureIn.loaded THEN LoadedFont(FontBaseSizes[measureIn.fontId + 1]) ELSE GetFontDefault

\* Every character of the text but the newlines has a glyph in the table.
AllInTable ==
    \A i \in 1..Len(measureIn.text) :
       measureIn.text[i] # NewLine => InTable(FontMeasured, measureIn.text[i] - FirstGlyphChar)

\* C22: Raylib_MeasureText returns a width equal to the largest per-line sum
\* of glyph advances over the newline-separated lines of the text, multiplied
\* by fontSize / baseSize of the font used, and a height equal to the requested
\* font size whatever the number of lines; the font used is the backend default
\* when the selected font has no glyph table.
C22_MeasureText ==
    measurePc \in {"returned", "crashed"} =>
        /\ measurePc = "returned"
        /\ measureOut.width =
              RatMul(RatOf(LargestLineSum(FontMeasured, measureIn.text)),
                     Ratio(measureIn.fontSize, FontMeasured.baseSize))
        /\ measureOut.height = Fl(measureIn.fontSize)

(***************************************************************************)
(* Run loop claims                                                         *)
(***************************************************************************)
\* The loop is past the reinitialize block of an iteration that started after
\* the last capacity error.
PastReinitBlock ==
    \/ loopHist.iterations = 1 /\ loopPc # "reinit"
    \/ loopHist.iterations >= 2

\* C14: after HandleClayErrors received a capacity error, the loop
\* reinitializes the layout engine exactly once: in the first iteration that
\* starts after the error, before initDraw and the two callbacks of that
\* iteration, clearing the reinitialize flag; while no further capacity error
\* arrives there is no second reinitialization, and with no capacity error at
\* all Clay_Initialize is called by RenderSetup only.
C14_ReinitializeOnce ==
    /\ loopHist.errorType = "none" =>
          /\ loopHist.reinits = 0
          /\ loopHist.initializes <= 1
          /\ ~renderer.reinitialize
    /\ loopHist.errorType # "none" =>
          /\ loopHist.reinits <= 1
          /\ loopHist.reinits = 1 => loopHist.iterations >= 1
          /\ PastReinitBlock => loopHist.reinits = 1 /\ ~renderer.reinitialize
          /\ ~PastReinitBlock => loopHist.reinits = 0 /\ renderer.reinitialize

\* A second iteration after the error is under way: the engine was
\* reinitialized in the first one and not again.
C14_Witness ==
    /\ loopHist.errorType # "none"
    /\ loopHist.iterations = 2
    /\ loopPc = "update"
    /\ loopHist.reinits = 1
    /\ loopHist.initializes = 2

\* C15: once the loop has reinitialized after a capacity error, the capacity
\* the error was about is twice what it was when the error was raised.
C15_CapacityDoubled ==
    (loopHist.errorType # "none" /\ loopHist.reinits = 1) =>
        CapacityOf(clay, loopHist.errorType) = 2 * loopHist.raisedAt

====
